---- MODULE Spec2Model ----
(***************************************************************************)
(* Model of the dsl-log-viewer event pipeline                              *)
(* (src/dsl-log-viewer/src/components/LogPlayback.tsx): parseLog, the      *)
(* playback render effect with its fight-batching helpers, and the React   *)
(* handlers that drive them.                                               *)
(*                                                                         *)
(* Conventions.  Timestamps are Date.getTime() values in milliseconds; an  *)
(* Invalid Date has the time value NaN.  Damage figures are fixed-point    *)
(* hundredths (1234 stands for 12.34).  The component state `time` is held *)
(* in milliseconds (the source holds seconds and multiplies by 1000).      *)
(* A JavaScript null/undefined reference is the empty tuple, a set one a   *)
(* one-element tuple.                                                      *)
(***************************************************************************)
EXTENDS Integers, Sequences, FiniteSets, TLC

VARIABLES
    loads,       \* number of files loaded so far (bounds the session)
    text,        \* parseLog specification: the lines handed to parseLog
    result,      \* parseLog specification: what the call produced
    entries,     \* useState: the loaded timeline
    duration,    \* useState: (last ts - first ts), in ms
    time,        \* useState: elapsed playback time, in ms
    playing,     \* useState: the clock interval is running
    refs,        \* the useRef cells of the component
    term,        \* the lines written to the terminal since its last clear
    hist         \* history of the run, read by the properties only

vars == <<loads, text, result, entries, duration, time, playing, refs, term, hist>>

-----------------------------------------------------------------------------
(* Bounds of the model *)

MaxLines == 3        \* lines of a text handed to parseLog
MaxLogLines == 3     \* lines of a log file loaded for playback
MaxRewinds == 1      \* backward moves of the clock per loaded log
MaxLoads == 2        \* log files loaded in one session
MaxRounds == 3       \* rounds handed to the fight helpers

-----------------------------------------------------------------------------
(* Program constants *)

tickTimer == 42
FIVE_MIN_MS == 300000

NaN == -1            \* time value of an Invalid Date

None == <<>>
Some(v) == <<v>>

-----------------------------------------------------------------------------
(* JavaScript number semantics restricted to what the code uses *)

IsNaN(a) == a = NaN
Add(a, b) == IF IsNaN(a) \/ IsNaN(b) THEN NaN ELSE a + b
Sub(a, b) == IF IsNaN(a) \/ IsNaN(b) THEN NaN ELSE a - b
GT(a, b) == ~IsNaN(a) /\ ~IsNaN(b) /\ a > b
GE(a, b) == ~IsNaN(a) /\ ~IsNaN(b) /\ a >= b
LE(a, b) == ~IsNaN(a) /\ ~IsNaN(b) /\ a <= b

-----------------------------------------------------------------------------
(* Input records *)

\* "timestamp" field of a record: two spellings of the same instant, an
\* unparsable string, or no field at all
TsIso(n) == [k |-> "iso", at |-> n]
TsSpaced(n) == [k |-> "spaced", at |-> n]
TsBad == [k |-> "bad", at |-> 0]
TsAbsent == [k |-> "absent", at |-> 0]

NoPayload == [totalDamage |-> 0, hits |-> 0, misses |-> 0, events |-> <<>>, bySource |-> <<>>]

\* "payload" field of a record
PAbsent == [k |-> "absent", s |-> "", o |-> NoPayload]
PStr(s) == [k |-> "str", s |-> s, o |-> NoPayload]
PObj(o) == [k |-> "obj", s |-> "", o |-> o]

\* one line of the file
Blank == [form |-> "blank", type |-> "", timestamp |-> TsAbsent, payload |-> PAbsent]
Garbage == [form |-> "garbage", type |-> "", timestamp |-> TsAbsent, payload |-> PAbsent]
JsonNull == [form |-> "null", type |-> "", timestamp |-> TsAbsent, payload |-> PAbsent]
JsonScalar == [form |-> "scalar", type |-> "", timestamp |-> TsAbsent, payload |-> PAbsent]
Obj(ty, tok, p) == [form |-> "object", type |-> ty, timestamp |-> tok, payload |-> p]

\* new Date(obj.timestamp).getTime()
DateParse(tok) == IF tok.k \in {"iso", "spaced"} THEN tok.at ELSE NaN

\* Date.prototype.toISOString of a valid time value: the canonical spelling
toISOString(ms) == TsIso(ms)

-----------------------------------------------------------------------------
(* parseLog *)

\* faulty variant: a record of any other type is kept as a narrative entry
DecodeLine_KeepUnknown(line) ==
    IF line.form \in {"blank", "garbage", "scalar"} THEN [threw |-> FALSE, push |-> <<>>]
    ELSE IF line.form = "null" THEN [threw |-> TRUE, push |-> <<>>]
    ELSE IF line.type = "damage"
        THEN [threw |-> FALSE,
              push |-> <<[ts |-> DateParse(line.timestamp), type |-> "damage",
                          message |-> "", payload |-> line.payload]>>]
    ELSE [threw |-> FALSE,
          push |-> <<[ts |-> DateParse(line.timestamp), type |-> "dsl-message",
                      message |-> IF line.payload.k = "absent" THEN "" ELSE line.payload.s,
                      payload |-> PAbsent]>>]

\* the body of the line loop for one line: the entries it pushes, or a throw
DecodeLine(line) ==
    IF line.form \in {"blank", "garbage", "scalar"} THEN [threw |-> FALSE, push |-> <<>>]
    ELSE IF line.form = "null" THEN [threw |-> TRUE, push |-> <<>>]
    ELSE IF line.type = "dsl-message"
        THEN [threw |-> FALSE,
              push |-> <<[ts |-> DateParse(line.timestamp), type |-> "dsl-message",
                          message |-> IF line.payload.k = "absent" THEN "" ELSE line.payload.s,
                          payload |-> PAbsent]>>]
    ELSE IF line.type = "damage"
        THEN [threw |-> FALSE,
              push |-> <<[ts |-> DateParse(line.timestamp), type |-> "damage",
                          message |-> "", payload |-> line.payload]>>]
    ELSE [threw |-> FALSE, push |-> <<>>]

RECURSIVE CollectFrom(_, _, _)
CollectFrom(lines, i, raw) ==
    IF i > Len(lines) THEN [threw |-> FALSE, raw |-> raw]
    ELSE LET d == DecodeLine(lines[i])
         IN  IF d.threw THEN [threw |-> TRUE, raw |-> raw]
             ELSE CollectFrom(lines, i + 1, raw \o d.push)

Collect(lines) == CollectFrom(lines, 1, <<>>)

\* the comparator (a, b) => a.ts.getTime() - b.ts.getTime(); a NaN result is
\* treated as +0 by Array.prototype.sort
CmpLE(a, b) == IsNaN(a.ts) \/ IsNaN(b.ts) \/ a.ts <= b.ts

\* the comparator is consistent unless an Invalid Date sits among two
\* different valid times
Consistent(raw) ==
    \/ \A i \in 1..Len(raw) : ~IsNaN(raw[i].ts)
    \/ \A i, j \in 1..Len(raw) : IsNaN(raw[i].ts) \/ IsNaN(raw[j].ts) \/ raw[i].ts = raw[j].ts

RECURSIVE InsertAt(_, _, _)
InsertAt(s, e, k) ==
    IF k = 0 \/ CmpLE(s[k], e)
    THEN SubSeq(s, 1, k) \o <<e>> \o SubSeq(s, k + 1, Len(s))
    ELSE InsertAt(s, e, k - 1)

RECURSIVE StableSortFrom(_, _, _)
StableSortFrom(raw, i, acc) ==
    IF i > Len(raw) THEN acc
    ELSE StableSortFrom(raw, i + 1, InsertAt(acc, raw[i], Len(acc)))

Perms(n) == {p \in [1..n -> 1..n] : \A i, j \in 1..n : p[i] = p[j] => i = j}

\* raw.sort(...): stable for a consistent comparator, an implementation-defined
\* order of the same elements otherwise
SortOutcomes(raw) ==
    IF Consistent(raw) THEN {StableSortFrom(raw, 1, <<>>)}
    ELSE {[i \in 1..Len(raw) |-> raw[p[i]]] : p \in Perms(Len(raw))}

\* faulty variant: the key leaves the message out
DedupeKey_NoMessage(e) == <<toISOString(e.ts), e.type, "">>

\* the key of the seen-set
DedupeKey(e) == <<toISOString(e.ts), e.type, e.message>>

\* faulty variant: every entry goes through the seen-set
Deduped_All(e) == TRUE

\* the entries the dedupe pass looks at
Deduped(e) == e.type = "dsl-message"

RECURSIVE DedupeFrom(_, _, _, _)
DedupeFrom(sorted, i, seen, out) ==
    IF i > Len(sorted) THEN [threw |-> FALSE, out |-> out]
    ELSE LET e == sorted[i]
         IN  IF Deduped(e)
             THEN IF IsNaN(e.ts) THEN [threw |-> TRUE, out |-> out]
                  ELSE IF DedupeKey(e) \in seen
                       THEN DedupeFrom(sorted, i + 1, seen, out)
                       ELSE DedupeFrom(sorted, i + 1, seen \cup {DedupeKey(e)}, Append(out, e))
             ELSE DedupeFrom(sorted, i + 1, seen, Append(out, e))

Dedupe(sorted) == DedupeFrom(sorted, 1, {}, <<>>)

Threw == [called |-> TRUE, threw |-> TRUE, sorted |-> <<>>, out |-> <<>>]

\* every outcome parseLog(text) can have
parseLog(lines) ==
    LET c == Collect(lines)
    IN  IF c.threw THEN {Threw}
        ELSE {LET d == Dedupe(s)
              IN  IF d.threw THEN Threw
                  ELSE [called |-> TRUE, threw |-> FALSE, sorted |-> s, out |-> d.out]
              : s \in SortOutcomes(c.raw)}

-----------------------------------------------------------------------------
(* Formatting helpers *)

RECURSIVE SkipSpaces(_)
SkipSpaces(s) == IF Len(s) > 0 /\ Head(s) = " " THEN SkipSpaces(Tail(s)) ELSE s

\* what follows the first "]" of s, if there is one
RECURSIVE AfterClose(_)
AfterClose(s) ==
    IF Len(s) = 0 THEN None
    ELSE IF Head(s) = "]" THEN Some(Tail(s)) ELSE AfterClose(Tail(s))

\* faulty variant: the whitespace after the tag is kept
normalizeActor_KeepSpace(name) ==
    LET a == SkipSpaces(name)
    IN  IF Len(a) = 0 \/ Head(a) # "[" THEN name
        ELSE LET r == AfterClose(Tail(a))
             IN  IF r = None THEN name ELSE r[1]

\* name.replace(/^\s*\[[^\]]*]\s*/, "")
normalizeActor(name) ==
    LET a == SkipSpaces(name)
    IN  IF Len(a) = 0 \/ Head(a) # "[" THEN name
        ELSE LET r == AfterClose(Tail(a))
             IN  IF r = None THEN name ELSE SkipSpaces(r[1])

\* String(n) of a number given in hundredths
NumStr(c) ==
    IF c % 100 = 0 THEN ToString(c \div 100)
    ELSE IF c % 10 = 0 THEN ToString(c \div 100) \o "." \o ToString((c % 100) \div 10)
    ELSE ToString(c \div 100) \o "." \o ToString((c % 100) \div 10) \o ToString(c % 10)

\* fmt1: Math.round(n * 10) / 10, then String(v) or v.toFixed(1)
\* String(v) or v.toFixed(1) of a number of v tenths, v >= 0
TenthsStr(v) ==
    IF v % 10 = 0 THEN ToString(v \div 10)
    ELSE ToString(v \div 10) \o "." \o ToString(v % 10)

\* faulty variant: the second decimal is cut off instead of rounded
fmt1_Truncate(c) ==
    IF c < 0 THEN (IF (-c) \div 10 = 0 THEN "0" ELSE "-" \o TenthsStr((-c) \div 10))
    ELSE TenthsStr(c \div 10)

fmt1(c) ==
    IF (c + 5) \div 10 < 0 THEN "-" \o TenthsStr(-((c + 5) \div 10))
    ELSE TenthsStr((c + 5) \div 10)

\* a value of type number, null or undefined handed to fmt1
Num(c) == [k |-> "num", c |-> c]
NonFinite(kind) == [k |-> kind, c |-> 0]
Nullish == [k |-> "nullish", c |-> 0]

\* fmt1 of any value: n ?? 0, and "0" unless Number.isFinite(v)
fmt1Of(n) ==
    IF n.k = "num" THEN fmt1(n.c)
    ELSE IF n.k = "nullish" THEN fmt1(0)
    ELSE "0"

-----------------------------------------------------------------------------
(* ansiToBBCode.  The escape character U+001B is written "^".  The output  *)
(* is kept as the sequence of the pieces appended to `out` (copied text,   *)
(* opening tag, closing tag) together with the string they make up.        *)

ESC == "^"

\* line.charAt(i - 1) for the 1-based position i
CharAt(line, i) == IF i >= 1 /\ i <= Len(line) THEN SubSeq(line, i, i) ELSE ""

Digits == <<"0", "1", "2", "3", "4", "5", "6", "7", "8", "9">>
IsDigit(c) == \E d \in 1..10 : Digits[d] = c
DigitValue(c) == (CHOOSE d \in 1..10 : Digits[d] = c) - 1

\* first position at or after i that does not hold a character of [0-9;]
RECURSIVE ParamsEnd(_, _)
ParamsEnd(line, i) ==
    IF IsDigit(CharAt(line, i)) \/ CharAt(line, i) = ";"
    THEN ParamsEnd(line, i + 1)
    ELSE i

\* /\x1b\[([0-9;]+)m/ matches at position i
MatchesAt(line, i) ==
    /\ CharAt(line, i) = ESC
    /\ CharAt(line, i + 1) = "["
    /\ ParamsEnd(line, i + 2) > i + 2
    /\ CharAt(line, ParamsEnd(line, i + 2)) = "m"

\* esc.exec(line) with lastIndex at position from: the position of the next
\* match, or 0 if there is none
RECURSIVE NextMatch(_, _)
NextMatch(line, from) ==
    IF from > Len(line) THEN 0
    ELSE IF MatchesAt(line, from) THEN from
    ELSE NextMatch(line, from + 1)

\* m[1].split(";").map(Number) for the parameter string at positions i .. j - 1
\* (Number("") is 0); cur is the number read so far in the current field
RECURSIVE SplitCodes(_, _, _, _, _)
SplitCodes(line, i, j, cur, codes) ==
    IF i >= j THEN Append(codes, cur)
    ELSE IF CharAt(line, i) = ";" THEN SplitCodes(line, i + 1, j, 0, Append(codes, cur))
    ELSE SplitCodes(line, i + 1, j, cur * 10 + DigitValue(CharAt(line, i)), codes)

ansiColorNames ==
    [c \in (30..38) \cup (90..97) |->
        CASE c \in {30} -> "BLACK" [] c \in {31} -> "RED" [] c \in {32} -> "GREEN"
          [] c \in {33, 93} -> "YELLOW" [] c \in {34, 94} -> "BLUE"
          [] c \in {35, 95} -> "MAGENTA" [] c \in {36, 96} -> "CYAN"
          [] c \in {37, 97} -> "WHITE" [] c \in {90} -> "BROWN" [] c \in {91} -> "ORANGE"
          [] c \in {92} -> "LIME GREEN" [] c \in {38} -> "PURPLE"]

\* codes.find(test): the first code of the range lo..hi, if any
FirstIn(codes, lo, hi) ==
    IF \E i \in 1..Len(codes) : codes[i] \in lo..hi
    THEN Some(codes[CHOOSE i \in 1..Len(codes) :
                        /\ codes[i] \in lo..hi
                        /\ \A j \in 1..(i - 1) : codes[j] \notin lo..hi])
    ELSE None

\* codes.findIndex((c, idx) => c === 38 && codes[idx + 1] === 5), 0 for -1
IndexedAt(codes) ==
    IF \E i \in 1..(Len(codes) - 1) : codes[i] = 38 /\ codes[i + 1] = 5
    THEN CHOOSE i \in 1..(Len(codes) - 1) :
            /\ codes[i] = 38 /\ codes[i + 1] = 5
            /\ \A j \in 1..(i - 1) : ~(codes[j] = 38 /\ codes[j + 1] = 5)
    ELSE 0

\* the name for the index that follows 38;5 at position i of codes
IndexedName(codes, i) ==
    IF i + 2 > Len(codes) THEN "XTERM-undefined"
    ELSE IF codes[i + 2] = 61 THEN "PURPLE"
    ELSE "XTERM-" \o ToString(codes[i + 2])

\* faulty variant: a basic code outranks a bright one
pick_BasicFirst(codes) ==
    IF FirstIn(codes, 30, 37) # None THEN Some(ansiColorNames[FirstIn(codes, 30, 37)[1]])
    ELSE IF FirstIn(codes, 90, 97) # None THEN Some(ansiColorNames[FirstIn(codes, 90, 97)[1]])
    ELSE IF IndexedAt(codes) # 0 THEN Some(IndexedName(codes, IndexedAt(codes)))
    ELSE None

\* pick(codes) followed by the lookup of the name: the colour name the
\* escape selects, if any
pick(codes) ==
    IF FirstIn(codes, 90, 97) # None THEN Some(ansiColorNames[FirstIn(codes, 90, 97)[1]])
    ELSE IF FirstIn(codes, 30, 37) # None THEN Some(ansiColorNames[FirstIn(codes, 30, 37)[1]])
    ELSE IF IndexedAt(codes) # 0 THEN Some(IndexedName(codes, IndexedAt(codes)))
    ELSE None

Copied(s) == [k |-> "text", s |-> s]
OpenTag(name) == [k |-> "open", s |-> name]
CloseTag == [k |-> "close", s |-> ""]

\* out += s
Emit(out, s) == IF Len(s) = 0 THEN out ELSE Append(out, Copied(s))

\* the scan before the first match: nothing written, no colour open
ScanStart == [out |-> <<>>, open |-> None, log |-> <<>>]

\* if (codes.includes(0) && open) { out += "[/COLOR]"; open = null; }
AfterReset(st, codes) ==
    IF (\E i \in 1..Len(codes) : codes[i] = 0) /\ st.open # None
    THEN [st EXCEPT !.out = Append(@, CloseTag), !.open = None]
    ELSE st

\* faulty variant: a colour that is already open is left open
AfterColour_SkipSame(st, name, nextChar) ==
    IF name # None /\ nextChar # "]" /\ name # st.open
    THEN [st EXCEPT !.out = (IF st.open # None THEN Append(@, CloseTag) ELSE @)
                                \o <<OpenTag(name[1])>>,
                    !.open = name]
    ELSE st

\* faulty variant: the new colour is opened without closing the open one
AfterColour_NoClose(st, name, nextChar) ==
    IF name # None /\ nextChar # "]"
    THEN [st EXCEPT !.out = Append(@, OpenTag(name[1])), !.open = name]
    ELSE st

\* if (col !== undefined) { ... if (nextChar !== "]") { close; open; } }
AfterColour(st, name, nextChar) ==
    IF name # None /\ nextChar # "]"
    THEN [st EXCEPT !.out = (IF st.open # None THEN Append(@, CloseTag) ELSE @)
                                \o <<OpenTag(name[1])>>,
                    !.open = name]
    ELSE st

\* the escape of parameters codes, followed by nextChar, took st0 to st1
Logged(st0, st1, codes, nextChar) ==
    [st1 EXCEPT !.log = Append(@, [codes |-> codes, next |-> nextChar,
                                   before |-> st0.open, after |-> st1.open,
                                   tags |-> SubSeq(st1.out, Len(st0.out) + 1, Len(st1.out))])]

\* the body of the while loop once the text before the match is copied
OnEscape(st0, codes, nextChar) ==
    Logged(st0, AfterColour(AfterReset(st0, codes), pick(codes), nextChar), codes, nextChar)

\* last = esc.lastIndex, for the match at positions i .. j - 1
CopyFrom(i, j) == j

\* the while loop from the match at position i (0: no further match), with
\* the text up to position last - 1 already copied
RECURSIVE ScanFrom(_, _, _, _)
ScanFrom(line, i, last, st) ==
    IF i = 0
    THEN [st EXCEPT !.out = (IF st.open # None THEN Append(Emit(@, SubSeq(line, last, Len(line))), CloseTag)
                             ELSE Emit(@, SubSeq(line, last, Len(line))))]
    ELSE ScanFrom(line,
                  NextMatch(line, ParamsEnd(line, i + 2) + 1),
                  CopyFrom(i, ParamsEnd(line, i + 2) + 1),
                  OnEscape([st EXCEPT !.out = Emit(@, SubSeq(line, last, i - 1))],
                           SplitCodes(line, i + 2, ParamsEnd(line, i + 2), 0, <<>>),
                           CharAt(line, ParamsEnd(line, i + 2) + 1)))

\* the string the pieces make up
RECURSIVE Render(_)
Render(out) ==
    IF Len(out) = 0 THEN ""
    ELSE (CASE Head(out).k = "text" -> Head(out).s
            [] Head(out).k = "open" -> "[COLOR=" \o Head(out).s \o "]"
            [] Head(out).k = "close" -> "[/COLOR]") \o Render(Tail(out))

ansiToBBCode(line) == ScanFrom(line, NextMatch(line, 1), 1, ScanStart)

-----------------------------------------------------------------------------
(* The insertion-ordered Map<string, PerActor> *)

MapHas(map, name) == \E i \in 1..Len(map) : map[i].actor = name

\* cur = map.get(name) ?? zeros; cur += (dd, dh, dm); map.set(name, cur)
MapAdd(map, name, dd, dh, dm) ==
    IF MapHas(map, name)
    THEN [i \in 1..Len(map) |->
            IF map[i].actor = name
            THEN [actor |-> name, damage |-> map[i].damage + dd,
                  hits |-> map[i].hits + dh, misses |-> map[i].misses + dm]
            ELSE map[i]]
    ELSE Append(map, [actor |-> name, damage |-> dd, hits |-> dh, misses |-> dm])

\* rows.sort((a, b) => b.damage - a.damage [|| b.hits - a.hits]), stable
RowBefore(a, b, useHits) ==
    \/ a.damage > b.damage
    \/ a.damage = b.damage /\ (~useHits \/ a.hits >= b.hits)

RECURSIVE InsertRow(_, _, _, _)
InsertRow(s, e, k, useHits) ==
    IF k = 0 \/ RowBefore(s[k], e, useHits)
    THEN SubSeq(s, 1, k) \o <<e>> \o SubSeq(s, k + 1, Len(s))
    ELSE InsertRow(s, e, k - 1, useHits)

RECURSIVE SortRowsFrom(_, _, _, _)
SortRowsFrom(rows, i, acc, useHits) ==
    IF i > Len(rows) THEN acc
    ELSE SortRowsFrom(rows, i + 1, InsertRow(acc, rows[i], Len(acc), useHits), useHits)

SortRows(rows, useHits) == SortRowsFrom(rows, 1, <<>>, useHits)

ActorLine(row) ==
    row.actor \o ": " \o fmt1(row.damage) \o " dmg, " \o ToString(row.hits)
        \o " hits, " \o ToString(row.misses) \o " misses"

-----------------------------------------------------------------------------
(* Per-round helpers *)

RECURSIVE AddBySource(_, _, _)
AddBySource(map, rows, i) ==
    IF i > Len(rows) THEN map
    ELSE AddBySource(MapAdd(map, normalizeActor(rows[i].actor),
                            rows[i].totalAsSource, rows[i].countAsSource, 0), rows, i + 1)

\* the event loop that adds damage and hits of events with amount > 0
RECURSIVE AddEventHits(_, _, _)
AddEventHits(map, evs, i) ==
    IF i > Len(evs) THEN map
    ELSE AddEventHits(
            IF evs[i].amount > 0
            THEN MapAdd(map, normalizeActor(evs[i].source), evs[i].amount, 1, 0)
            ELSE MapAdd(map, normalizeActor(evs[i].source), 0, 0, 0),
            evs, i + 1)

\* the event loop that adds one miss per event with amount 0
RECURSIVE AddEventMisses(_, _, _)
AddEventMisses(map, evs, i) ==
    IF i > Len(evs) THEN map
    ELSE AddEventMisses(
            IF evs[i].amount = 0
            THEN MapAdd(map, normalizeActor(evs[i].source), 0, 0, 1)
            ELSE map,
            evs, i + 1)

\* the single event loop of buildRoundPerSourceLines
RECURSIVE AddEventsPerRound(_, _, _, _)
AddEventsPerRound(map, evs, i, hasBySource) ==
    IF i > Len(evs) THEN map
    ELSE LET ev == evs[i]
             hit == ~hasBySource /\ ev.amount > 0
         IN  AddEventsPerRound(
                MapAdd(map, normalizeActor(ev.source),
                       IF hit THEN ev.amount ELSE 0,
                       IF hit THEN 1 ELSE 0,
                       IF ev.amount = 0 THEN 1 ELSE 0),
                evs, i + 1, hasBySource)

buildRoundPerSourceLines(p) ==
    LET hasBySource == Len(p.bySource) > 0
        per1 == IF hasBySource THEN AddBySource(<<>>, p.bySource, 1) ELSE <<>>
        per2 == AddEventsPerRound(per1, p.events, 1, hasBySource)
        arr == SortRows(per2, TRUE)
    IN  [i \in 1..Len(arr) |-> ActorLine(arr[i])]

addRoundToActors(map, p) ==
    LET m1 == IF Len(p.bySource) > 0 THEN AddBySource(map, p.bySource, 1)
              ELSE AddEventHits(map, p.events, 1)
    IN  AddEventMisses(m1, p.events, 1)

RECURSIVE SumTotalAsSource(_, _)
SumTotalAsSource(rows, i) ==
    IF i > Len(rows) THEN 0 ELSE rows[i].totalAsSource + SumTotalAsSource(rows, i + 1)

RECURSIVE SumCountAsSource(_, _)
SumCountAsSource(rows, i) ==
    IF i > Len(rows) THEN 0 ELSE rows[i].countAsSource + SumCountAsSource(rows, i + 1)

RECURSIVE SumHitAmounts(_, _)
SumHitAmounts(evs, i) ==
    IF i > Len(evs) THEN 0
    ELSE (IF evs[i].amount > 0 THEN evs[i].amount ELSE 0) + SumHitAmounts(evs, i + 1)

CountEvents(evs, isHit) ==
    Cardinality({i \in 1..Len(evs) : IF isHit THEN evs[i].amount > 0 ELSE evs[i].amount = 0})

addRoundToTotals(t, p) ==
    LET dh == IF Len(p.bySource) > 0
                THEN [damage |-> SumTotalAsSource(p.bySource, 1), hits |-> SumCountAsSource(p.bySource, 1)]
              ELSE IF Len(p.events) > 0
                THEN [damage |-> SumHitAmounts(p.events, 1), hits |-> CountEvents(p.events, TRUE)]
              ELSE [damage |-> p.totalDamage, hits |-> p.hits]
        dm == IF Len(p.events) > 0 THEN CountEvents(p.events, FALSE) ELSE p.misses
    IN  [damage |-> t.damage + dh.damage, hits |-> t.hits + dh.hits, misses |-> t.misses + dm]

-----------------------------------------------------------------------------
(* The component's refs, and the effects that work on them.  An effect is  *)
(* an operator on w = [refs, term, hist].                                  *)

ZeroTotals == [damage |-> 0, hits |-> 0, misses |-> 0]

\* the fight-batching refs as the reset effect leaves them
FreshRefs ==
    [lastIndexRef |-> 0,
     lastDamageTsRef |-> None,
     nextFlushDeadlineRef |-> None,
     fightFlushedByTimerRef |-> FALSE,
     byActorRef |-> <<>>,
     totalsRef |-> ZeroTotals,
     flushedFinalRef |-> FALSE]

\* the history a freshly loaded log starts with: the entries the emit loop
\* visited, the rounds it processed, the summaries flushed, the backward
\* clock moves, whether elapsed time has only grown, the inputs of the first
\* and the latest effect run, and the latest direct call of a fight helper
FreshHist ==
    [emitted |-> <<>>, rounds |-> <<>>, flushes |-> <<>>, rewinds |-> 0, monotone |-> TRUE,
     firstStep |-> None, lastStep |-> None, call |-> None]

\* the fight accumulator held in the refs
Acc(r) == [actors |-> r.byActorRef, totals |-> r.totalsRef]

\* byActorRef.current.size > 0 || totals.damage > 0 || totals.hits > 0 || totals.misses > 0
NonZero(r) ==
    \/ Len(r.byActorRef) > 0
    \/ r.totalsRef.damage > 0
    \/ r.totalsRef.hits > 0
    \/ r.totalsRef.misses > 0

\* faulty variant: the rows are ordered like the lines of a round
SummaryLines_ByHits(map, t) ==
    LET rows == SortRows(map, TRUE)
    IN  <<"-- Fight summary -- totalDamage=" \o fmt1(t.damage) \o ", hits=" \o ToString(t.hits)
            \o ", misses=" \o ToString(t.misses)>>
        \o [i \in 1..Len(rows) |-> "  " \o ActorLine(rows[i])]
        \o <<"">>

\* the lines of a summary: header, one row per actor, blank line
SummaryLines(map, t) ==
    LET rows == SortRows(map, FALSE)
    IN  <<"-- Fight summary -- totalDamage=" \o fmt1(t.damage) \o ", hits=" \o ToString(t.hits)
            \o ", misses=" \o ToString(t.misses)>>
        \o [i \in 1..Len(rows) |-> "  " \o ActorLine(rows[i])]
        \o <<"">>

\* faulty variant: the flush deadline survives the flush
flushFightSummary_KeepDeadline(w) ==
    LET r == w.refs
        map == r.byActorRef
        t == r.totalsRef
    IN  IF Len(map) = 0 /\ t.damage = 0 /\ t.hits = 0 /\ t.misses = 0 THEN w
        ELSE [refs |-> [r EXCEPT !.byActorRef = <<>>,
                                 !.totalsRef = ZeroTotals,
                                 !.lastDamageTsRef = None,
                                 !.fightFlushedByTimerRef = TRUE],
              term |-> w.term \o SummaryLines(map, t),
              hist |-> [w.hist EXCEPT !.flushes =
                            Append(@, [totals |-> t, actors |-> map, at |-> Len(w.term) + 1])]]

\* faulty variant: an empty accumulator is flushed like any other
flushFightSummary_NoGuard(w) ==
    LET r == w.refs
        map == r.byActorRef
        t == r.totalsRef
    IN  [refs |-> [r EXCEPT !.byActorRef = <<>>,
                            !.totalsRef = ZeroTotals,
                            !.lastDamageTsRef = None,
                            !.nextFlushDeadlineRef = None,
                            !.fightFlushedByTimerRef = TRUE],
         term |-> w.term \o SummaryLines(map, t),
         hist |-> [w.hist EXCEPT !.flushes =
                       Append(@, [totals |-> t, actors |-> map, at |-> Len(w.term) + 1])]]

\* faulty variant: the timestamp of the last round survives the flush
flushFightSummary_KeepLast(w) ==
    LET r == w.refs
        map == r.byActorRef
        t == r.totalsRef
    IN  IF Len(map) = 0 /\ t.damage = 0 /\ t.hits = 0 /\ t.misses = 0 THEN w
        ELSE [refs |-> [r EXCEPT !.byActorRef = <<>>,
                                 !.totalsRef = ZeroTotals,
                                 !.lastDamageTsRef = Some(r.lastDamageTsRef[1] + FIVE_MIN_MS),
                                 !.nextFlushDeadlineRef = Some(r.nextFlushDeadlineRef[1] + FIVE_MIN_MS),
                                 !.fightFlushedByTimerRef = TRUE],
              term |-> w.term \o SummaryLines(map, t),
              hist |-> [w.hist EXCEPT !.flushes =
                            Append(@, [totals |-> t, actors |-> map, at |-> Len(w.term) + 1])]]

\* faulty variant: the totals are not zeroed by the flush
flushFightSummary_KeepTotals(w) ==
    LET r == w.refs
        map == r.byActorRef
        t == r.totalsRef
    IN  IF Len(map) = 0 /\ t.damage = 0 /\ t.hits = 0 /\ t.misses = 0 THEN w
        ELSE [refs |-> [r EXCEPT !.byActorRef = <<>>,
                                 !.lastDamageTsRef = None,
                                 !.nextFlushDeadlineRef = None,
                                 !.fightFlushedByTimerRef = TRUE],
              term |-> w.term \o SummaryLines(map, t),
              hist |-> [w.hist EXCEPT !.flushes =
                            Append(@, [totals |-> t, actors |-> map, at |-> Len(w.term) + 1])]]

flushFightSummary(w) ==
    LET r == w.refs
        map == r.byActorRef
        t == r.totalsRef
    IN  IF Len(map) = 0 /\ t.damage = 0 /\ t.hits = 0 /\ t.misses = 0 THEN w
        ELSE [refs |-> [r EXCEPT !.byActorRef = <<>>,
                                 !.totalsRef = ZeroTotals,
                                 !.lastDamageTsRef = None,
                                 !.nextFlushDeadlineRef = None,
                                 !.fightFlushedByTimerRef = TRUE],
              term |-> w.term \o SummaryLines(map, t),
              hist |-> [w.hist EXCEPT !.flushes =
                            Append(@, [totals |-> t, actors |-> map, at |-> Len(w.term) + 1])]]

RoundHeader(p) ==
    ">> Damage Round: total=" \o NumStr(p.totalDamage) \o ", hits=" \o ToString(p.hits)
        \o ", misses=" \o ToString(p.misses)

\* faulty variant: a gap of exactly five minutes does not flush
GapFlush_Strict(w, curTs) ==
    IF /\ w.refs.lastDamageTsRef # None
       /\ GT(Sub(curTs, w.refs.lastDamageTsRef[1]), FIVE_MIN_MS)
       /\ NonZero(w.refs)
    THEN flushFightSummary(w)
    ELSE w

\* the gap check that precedes a round
GapFlush(w, curTs) ==
    IF /\ w.refs.lastDamageTsRef # None
       /\ GE(Sub(curTs, w.refs.lastDamageTsRef[1]), FIVE_MIN_MS)
       /\ NonZero(w.refs)
    THEN flushFightSummary(w)
    ELSE w

\* the "By source:" block of a round
BySourceBlock(lines) ==
    IF Len(lines) > 0
    THEN <<"By source:">> \o [k \in 1..Len(lines) |-> "  " \o lines[k]]
    ELSE <<>>

\* the round p of instant curTs written and accumulated: seen is the state
\* the loop body began with, w1 the state after the gap check, r2 the refs
\* after the accumulation and the timers
WriteRound(seen, w1, r2, p, curTs) ==
    [refs |-> r2,
     term |-> w1.term \o <<RoundHeader(p)>> \o BySourceBlock(buildRoundPerSourceLines(p))
                \o <<"", "">>,
     hist |-> [w1.hist EXCEPT !.rounds =
                 Append(@, [ts |-> curTs, p |-> p,
                            prev |-> seen.refs.lastDamageTsRef,
                            nflushes |-> Len(seen.hist.flushes),
                            start |-> Acc(seen.refs),
                            before |-> Acc(w1.refs),
                            after |-> Acc(r2),
                            at |-> Len(w1.term) + 1])]]

\* faulty variant: a fight marked flushed stays marked
AccumulateRound_KeepFlag(seen, w1, p, curTs) ==
    WriteRound(seen, w1,
               [w1.refs EXCEPT
                    !.byActorRef = addRoundToActors(@, p),
                    !.totalsRef = addRoundToTotals(@, p),
                    !.lastDamageTsRef = Some(curTs),
                    !.nextFlushDeadlineRef = Some(Add(curTs, FIVE_MIN_MS))],
               p, curTs)

\* accumulate for the fight and set the timers
\* faulty variant: the deadline is not moved with the round
AccumulateRound_NoDeadline(seen, w1, p, curTs) ==
    WriteRound(seen, w1,
               [w1.refs EXCEPT
                    !.byActorRef = addRoundToActors(@, p),
                    !.totalsRef = addRoundToTotals(@, p),
                    !.lastDamageTsRef = Some(curTs),
                    !.fightFlushedByTimerRef = FALSE],
               p, curTs)

AccumulateRound(seen, w1, p, curTs) ==
    WriteRound(seen, w1,
               [w1.refs EXCEPT
                    !.byActorRef = addRoundToActors(@, p),
                    !.totalsRef = addRoundToTotals(@, p),
                    !.lastDamageTsRef = Some(curTs),
                    !.nextFlushDeadlineRef = Some(Add(curTs, FIVE_MIN_MS)),
                    !.fightFlushedByTimerRef = FALSE],
               p, curTs)

\* the body of the emit loop for entry, already noted as visited in seen
EmitEntry(seen, entry) ==
    IF entry.type = "dsl-message"
    THEN [seen EXCEPT !.term = Append(@, IF Len(entry.message) > 0 THEN entry.message ELSE " ")]
    ELSE IF entry.type = "damage" /\ entry.payload.k = "obj"
    THEN AccumulateRound(seen, GapFlush(seen, entry.ts), entry.payload.o, entry.ts)
    ELSE seen

\* the body of the emit loop for entries[i] (i counted from 1)
ProcessEntry(w, ents, i) ==
    EmitEntry([w EXCEPT !.hist.emitted = Append(@, i)], ents[i])

\* faulty variant: a step handles only the last entry it exposes
EmitLoop_LastOnly(w, ents, from, end) ==
    IF from >= end THEN w ELSE ProcessEntry(w, ents, end)

\* for (let i = from; i < end; i++) over 0-based indices, i.e. entries from+1 .. end
RECURSIVE EmitLoop(_, _, _, _)
EmitLoop(w, ents, from, end) ==
    IF from >= end THEN w
    ELSE EmitLoop(ProcessEntry(w, ents, from + 1), ents, from + 1, end)

\* faulty variant: the comparison with the cutoff is not strict
FindEnd_Inclusive(ents, cutoff) ==
    IF \E i \in 1..Len(ents) : GE(ents[i].ts, cutoff)
    THEN (CHOOSE i \in 1..Len(ents) :
            /\ GE(ents[i].ts, cutoff)
            /\ \A j \in 1..(i - 1) : ~GE(ents[j].ts, cutoff)) - 1
    ELSE Len(ents)

\* entries.findIndex(e => e.ts.getTime() > cutoff), -1 replaced by entries.length
FindEnd(ents, cutoff) ==
    IF \E i \in 1..Len(ents) : GT(ents[i].ts, cutoff)
    THEN (CHOOSE i \in 1..Len(ents) :
            /\ GT(ents[i].ts, cutoff)
            /\ \A j \in 1..(i - 1) : ~GT(ents[j].ts, cutoff)) - 1
    ELSE Len(ents)

\* faulty variant: the emit loop always starts at the first entry
LoopStart_Zero(r) == 0

\* first index of the emit loop
LoopStart(r) == r.lastIndexRef

\* faulty variant: the deadline itself is not yet late enough
TimerFlush_Strict(w, cutoff) ==
    IF /\ w.refs.nextFlushDeadlineRef # None
       /\ GT(cutoff, w.refs.nextFlushDeadlineRef[1])
       /\ ~w.refs.fightFlushedByTimerRef
       /\ NonZero(w.refs)
    THEN flushFightSummary(w)
    ELSE w

\* the time-based flush at the end of a step
\* faulty variant: the open fight is flushed at the end of every step
TimerFlush_EveryStep(w, cutoff) ==
    IF NonZero(w.refs) THEN flushFightSummary(w) ELSE w

TimerFlush(w, cutoff) ==
    IF /\ w.refs.nextFlushDeadlineRef # None
       /\ GE(cutoff, w.refs.nextFlushDeadlineRef[1])
       /\ ~w.refs.fightFlushedByTimerRef
       /\ NonZero(w.refs)
    THEN flushFightSummary(w)
    ELSE w

\* faulty variant: reaching the end only sets the flag
FinalFlush_FlagOnly(w, ents, end) ==
    IF end = Len(ents)
    THEN [w EXCEPT !.refs.flushedFinalRef = TRUE]
    ELSE [w EXCEPT !.refs.flushedFinalRef = FALSE]

\* faulty variant: the flag, once set, stays set
FinalFlush_Sticky(w, ents, end) ==
    IF end = Len(ents) /\ ~w.refs.flushedFinalRef
    THEN [(IF NonZero(w.refs) THEN flushFightSummary(w) ELSE w)
              EXCEPT !.refs.flushedFinalRef = TRUE]
    ELSE w

\* the end-of-log flush and the upkeep of flushedFinalRef
FinalFlush(w, ents, end) ==
    LET w1 == IF end = Len(ents) /\ ~w.refs.flushedFinalRef
              THEN [(IF NonZero(w.refs) THEN flushFightSummary(w) ELSE w)
                        EXCEPT !.refs.flushedFinalRef = TRUE]
              ELSE w
    IN  IF end # Len(ents) THEN [w1 EXCEPT !.refs.flushedFinalRef = FALSE] ELSE w1

\* the inputs of the first effect run on the loaded log
NoteFirstStep(w, t, end) ==
    [w EXCEPT !.hist.firstStep =
        IF @ = None
        THEN Some([timeZero |-> t = 0, lastIndex |-> w.refs.lastIndexRef,
                   fresh |-> w.refs = FreshRefs, to |-> end])
        ELSE @]

\* faulty variant: the cursor is not moved to the boundary
AfterLoop_NoCursor(w, w1, ents, cutoff, end) ==
    FinalFlush(
        TimerFlush(
            [w1 EXCEPT !.hist.lastStep =
                          Some([from |-> LoopStart(w.refs), to |-> end,
                                totals |-> w.refs.totalsRef, nflushes |-> Len(w.hist.flushes),
                                finalDone |-> w.refs.flushedFinalRef,
                                cutoff |-> cutoff,
                                mid |-> w1.refs, midFlushes |-> Len(w1.hist.flushes)])],
            cutoff),
        ents, end)

\* what follows the emit loop: w is the state the effect began with, w1 the
\* state the loop left
\* faulty variant: the end-of-log flush is left out
AfterLoop_NoFinal(w, w1, ents, cutoff, end) ==
    TimerFlush(
        [w1 EXCEPT !.refs.lastIndexRef = end,
                   !.hist.lastStep =
                      Some([from |-> LoopStart(w.refs), to |-> end,
                            totals |-> w.refs.totalsRef, nflushes |-> Len(w.hist.flushes),
                            finalDone |-> w.refs.flushedFinalRef,
                            cutoff |-> cutoff,
                            mid |-> w1.refs, midFlushes |-> Len(w1.hist.flushes)])],
        cutoff)

AfterLoop(w, w1, ents, cutoff, end) ==
    FinalFlush(
        TimerFlush(
            [w1 EXCEPT !.refs.lastIndexRef = end,
                       !.hist.lastStep =
                          Some([from |-> LoopStart(w.refs), to |-> end,
                                totals |-> w.refs.totalsRef, nflushes |-> Len(w.hist.flushes),
                                finalDone |-> w.refs.flushedFinalRef,
                                cutoff |-> cutoff,
                                mid |-> w1.refs, midFlushes |-> Len(w1.hist.flushes)])],
            cutoff),
        ents, end)

\* the effect once cutoff and end are computed
PlaybackTo(w, ents, t, cutoff, end) ==
    AfterLoop(w, EmitLoop(NoteFirstStep(w, t, end), ents, LoopStart(w.refs), end),
              ents, cutoff, end)

\* faulty variant: an empty timeline is handled like one whose boundary is 0
PlaybackEffect_NoGuard(w, ents, t) ==
    IF Len(ents) = 0 THEN FinalFlush([w EXCEPT !.refs.lastIndexRef = 0], ents, 0)
    ELSE PlaybackTo(w, ents, t, Add(ents[1].ts, t), FindEnd(ents, Add(ents[1].ts, t)))

\* the playback render effect, run with the render's time t
PlaybackEffect(w, ents, t) ==
    IF Len(ents) = 0 THEN w
    ELSE PlaybackTo(w, ents, t, Add(ents[1].ts, t), FindEnd(ents, Add(ents[1].ts, t)))

\* the reset-on-new-entries effect: the refs and the terminal
ResetEffect(w, ents) ==
    IF Len(ents) = 0 THEN w
    ELSE [refs |-> FreshRefs, term |-> <<>>, hist |-> FreshHist]

-----------------------------------------------------------------------------
(* Inputs *)

SeqsUpTo(S, n) == UNION {[1..k -> S] : k \in 0..n}

BySourceOnly ==
    [totalDamage |-> 1234, hits |-> 2, misses |-> 0, events |-> <<>>,
     bySource |-> <<[actor |-> "[C] R", totalAsSource |-> 1234, countAsSource |-> 2]>>]
EventsOnly ==
    [totalDamage |-> 500, hits |-> 1, misses |-> 1, bySource |-> <<>>,
     events |-> <<[source |-> "R", amount |-> 500], [source |-> "M", amount |-> 0]>>]
BareRollup ==
    [totalDamage |-> 700, hits |-> 1, misses |-> 1, events |-> <<>>, bySource |-> <<>>]

\* bySource rows, no events, and a misses field
BySourceMisses ==
    [totalDamage |-> 500, hits |-> 1, misses |-> 2, events |-> <<>>,
     bySource |-> <<[actor |-> "[C] M", totalAsSource |-> 500, countAsSource |-> 1]>>]
\* bySource rows together with events
BySourceAndEvents ==
    [totalDamage |-> 800, hits |-> 2, misses |-> 1,
     bySource |-> <<[actor |-> "R", totalAsSource |-> 800, countAsSource |-> 2]>>,
     events |-> <<[source |-> "R", amount |-> 300], [source |-> "M", amount |-> 0]>>]
\* events of three actors, two of which deal the same damage with
\* different hit counts
TiedEvents ==
    [totalDamage |-> 1100, hits |-> 4, misses |-> 0, bySource |-> <<>>,
     events |-> <<[source |-> "K", amount |-> 100], [source |-> "M", amount |-> 500],
                  [source |-> "R", amount |-> 250], [source |-> "R", amount |-> 250]>>]

\* a bySource row of one actor and a hit event of another
BySourceOtherEvent ==
    [totalDamage |-> 800, hits |-> 2, misses |-> 0,
     bySource |-> <<[actor |-> "R", totalAsSource |-> 800, countAsSource |-> 2]>>,
     events |-> <<[source |-> "K", amount |-> 300]>>]

\* the payloads handed to the fight helpers
FightRounds ==
    {BySourceOnly, EventsOnly, BareRollup, NoPayload, BySourceMisses, BySourceAndEvents,
     TiedEvents, BySourceOtherEvent}

\* instants of the sample records: the first one, one tickTimer later, and
\* 299 s, 300 s and 342 s after the first
T0 == 5 * 1000
T1 == T0 + tickTimer * 1000
T2 == T0 + FIVE_MIN_MS - 1000
T3 == T0 + FIVE_MIN_MS
T4 == T3 + tickTimer * 1000

MsgA == Obj("dsl-message", TsIso(T0), PStr("a"))
MsgASpaced == Obj("dsl-message", TsSpaced(T0), PStr("a"))
MsgB == Obj("dsl-message", TsIso(T0), PStr("b"))
MsgEmpty == Obj("dsl-message", TsIso(T1), PAbsent)
MsgLate == Obj("dsl-message", TsIso(T4), PStr("b"))
MsgBadTs == Obj("dsl-message", TsBad, PStr("a"))
Round0 == Obj("damage", TsSpaced(T0), PObj(BySourceOnly))
Round1 == Obj("damage", TsIso(T1), PObj(EventsOnly))
Round2 == Obj("damage", TsIso(T2), PObj(EventsOnly))
Round3 == Obj("damage", TsIso(T3), PObj(BareRollup))
RoundBadTs == Obj("damage", TsBad, PObj(BySourceOnly))
RoundNoFields == Obj("damage", TsAbsent, PAbsent)
Gmcp == Obj("gmcp", TsIso(T1), PObj(NoPayload))

\* lines of the texts handed to parseLog
LinePool ==
    {Blank, Garbage, JsonNull, JsonScalar, Gmcp,
     MsgA, MsgASpaced, MsgB, MsgEmpty, MsgBadTs,
     Round0, Round1, RoundBadTs, RoundNoFields}

Texts == SeqsUpTo(LinePool, MaxLines)

\* the log files loaded for playback: the files made of at most MaxLogLines
\* lines of one session log, in the order the session wrote them
SessionLog == <<MsgA, Round0, Round2, Round3, MsgLate>>

RECURSIVE Pick(_, _, _)
Pick(log, keep, i) ==
    IF i > Len(log) THEN <<>>
    ELSE (IF i \in keep THEN <<log[i]>> ELSE <<>>) \o Pick(log, keep, i + 1)

LogFiles ==
    {Pick(SessionLog, keep, 1) :
        keep \in {k \in SUBSET (1..Len(SessionLog)) : Cardinality(k) <= MaxLogLines}}

\* (now - last) of a clock tick, in ms
TickDeltas == {FIVE_MIN_MS}

-----------------------------------------------------------------------------
(* Specification of parseLog as a function of its input *)

NotCalled == [called |-> FALSE, threw |-> FALSE, sorted |-> <<>>, out |-> <<>>]

ComponentInit ==
    /\ loads = 0
    /\ entries = <<>>
    /\ duration = 0
    /\ time = 0
    /\ playing = FALSE
    /\ refs = FreshRefs
    /\ term = <<"> Ready to load .log...">>
    /\ hist = FreshHist

InitParse ==
    /\ text \in Texts
    /\ result = NotCalled
    /\ ComponentInit

ParseLogCall ==
    /\ ~result.called
    /\ result' \in parseLog(text)
    /\ UNCHANGED <<loads, text, entries, duration, time, playing, refs, term, hist>>

SpecParse == InitParse /\ [][ParseLogCall]_vars

-----------------------------------------------------------------------------
(* Specification of the component *)

Min(a, b) == IF a <= b THEN a ELSE b
Max(a, b) == IF a >= b THEN a ELSE b

Init ==
    /\ text = <<>>
    /\ result = NotCalled
    /\ ComponentInit

\* the timelines parseLog returns for the log files
LoadableTimelines ==
    UNION {{r.out : r \in {x \in parseLog(lines) : ~x.threw}} : lines \in LogFiles}

\* the refs, the terminal and the history become those of w
Commit(w) ==
    /\ refs' = w.refs
    /\ term' = w.term
    /\ hist' = w.hist

\* the re-render that the reset effect's setTime(0) asks for, if time changes
Rerender(w2, out) ==
    IF time # 0
    THEN PlaybackEffect([w2 EXCEPT !.hist.monotone = FALSE], out, 0)
    ELSE w2

\* reader.onload: setEntries(parseLog(...)), then the commit's effects in
\* declaration order (reset, playback) with the time of that render, then the
\* re-render the reset effect's setTime(0) asks for (an empty timeline makes
\* both effects return at once, so nothing is set and nothing re-renders).
\* A parseLog that throws leaves the handler without a state change.
OnFile ==
    \E out \in LoadableTimelines :
        /\ loads < MaxLoads
        /\ loads' = loads + 1
        /\ entries' = out
        /\ IF Len(out) = 0
           THEN /\ UNCHANGED <<duration, time, playing>>
                /\ Commit(PlaybackEffect(
                            ResetEffect([refs |-> refs, term |-> term, hist |-> hist], out),
                            out, time))
           ELSE /\ duration' = Sub(out[Len(out)].ts, out[1].ts)
                /\ time' = 0
                /\ playing' = FALSE
                /\ Commit(Rerender(
                            PlaybackEffect(
                                ResetEffect([refs |-> refs, term |-> term, hist |-> hist], out),
                                out, time),
                            out))
        /\ UNCHANGED <<text, result>>

\* setTime(t) followed by the playback effect of the re-render
SetTime(t) ==
    /\ t # time
    /\ time' = t
    /\ Commit(PlaybackEffect(
                [refs |-> refs, term |-> term,
                 hist |-> IF t < time
                          THEN [hist EXCEPT !.rewinds = @ + 1, !.monotone = FALSE]
                          ELSE hist],
                entries, t))
    /\ UNCHANGED <<loads, text, result, entries, duration, playing>>

\* the Start Playback / Pause button
TogglePlaying ==
    /\ Len(entries) > 0
    /\ playing' = ~playing
    /\ UNCHANGED <<loads, text, result, entries, duration, time, refs, term, hist>>

\* the interval callback of the playback clock
Tick ==
    /\ playing
    /\ \E d \in TickDeltas : SetTime(Min(time + d, duration))

\* the << 42s button
RewindButton ==
    /\ Len(entries) > 0
    /\ hist.rewinds < MaxRewinds
    /\ SetTime(Max(0, time - tickTimer * 1000))

\* the 42s >> button
ForwardButton ==
    /\ Len(entries) > 0
    /\ SetTime(Min(duration, time + tickTimer * 1000))

Next == OnFile \/ TogglePlaying \/ Tick \/ RewindButton \/ ForwardButton

Spec == Init /\ [][Next]_vars

\* what a Tick does to the clock.  A step of Next changes time in this way
\* exactly when it is a step of Tick (the 42s >> button does so only where it
\* has the effect of a Tick), and it is possible exactly when Tick is.
ClockTick == playing /\ \E d \in TickDeltas : time' = Min(time + d, duration)

\* the interval of the playback clock keeps firing while playing is set
SpecPlay == Init /\ [][Next]_vars /\ WF_time(ClockTick)

-----------------------------------------------------------------------------
(* Specification of the fight helpers as functions of the rounds they get *)

InitFight ==
    /\ text = <<>>
    /\ result = NotCalled
    /\ ComponentInit

\* the timeline entry of a damage round
RoundEntry(p, ts) == [ts |-> ts, type |-> "damage", message |-> "", payload |-> PObj(p)]

\* one pass of the emit loop over a damage entry, a second after the last one
ProcessRound ==
    \E p \in FightRounds :
        /\ Len(hist.rounds) < MaxRounds
        /\ Commit(ProcessEntry([refs |-> refs, term |-> term,
                                hist |-> [hist EXCEPT !.call = None]],
                               <<RoundEntry(p, T0 + Len(hist.rounds) * 1000)>>, 1))
        /\ UNCHANGED <<loads, text, result, entries, duration, time, playing>>

\* a call of flushFightSummary
FlushCall ==
    /\ Commit([flushFightSummary([refs |-> refs, term |-> term, hist |-> hist])
                    EXCEPT !.hist.call = Some([before |-> refs, term |-> term])])
    /\ UNCHANGED <<loads, text, result, entries, duration, time, playing>>

NextFight == ProcessRound \/ FlushCall

SpecFight == InitFight /\ [][NextFight]_vars

-----------------------------------------------------------------------------
(* ansiToBBCode on its own: a message is built from chunks, each either    *)
(* plain text or one SGR escape, and handed to the translator once.        *)

MaxChunks == 3       \* chunks of a message handed to ansiToBBCode

PlainChunk(s) == [s |-> s, esc |-> FALSE]
EscChunk(params) == [s |-> ESC \o "[" \o params \o "m", esc |-> TRUE]

ChunkPool ==
    { PlainChunk("A"), PlainChunk("]"),
      EscChunk("31"), EscChunk("32"), EscChunk("0"), EscChunk("0;32"),
      EscChunk("31;91"), EscChunk("91;31"), EscChunk("1"),
      EscChunk("38;5;61"), EscChunk("38;5;7"), EscChunk("38;5;31"),
      EscChunk("38;5"), EscChunk("") }

\* the example message of the documentation
NestedSample ==
    << EscChunk("31"), PlainChunk("A "), EscChunk("32"), PlainChunk("B "),
       EscChunk("0"), PlainChunk("C") >>

Messages == SeqsUpTo(ChunkPool, MaxChunks) \cup {NestedSample}

\* the message as the string e.message
RECURSIVE Line(_)
Line(chunks) == IF Len(chunks) = 0 THEN "" ELSE Head(chunks).s \o Line(Tail(chunks))

Translated(st) == [called |-> TRUE, out |-> Render(st.out), pieces |-> st.out, log |-> st.log]

InitAnsi ==
    /\ text \in Messages
    /\ result = [called |-> FALSE, out |-> "", pieces |-> <<>>, log |-> <<>>]
    /\ ComponentInit

\* parts.push(ansiToBBCode(e.message ?? ""))
AnsiToBBCodeCall ==
    /\ ~result.called
    /\ result' = Translated(ansiToBBCode(Line(text)))
    /\ UNCHANGED <<loads, text, entries, duration, time, playing, refs, term, hist>>

SpecAnsi == InitAnsi /\ [][AnsiToBBCodeCall]_vars

-----------------------------------------------------------------------------
(* normalizeActor on its own: a name is normalized, and a round that names *)
(* it as a source is added to the actors, followed by a round of "Rogar".  *)

MaxNameLen == 4      \* characters of an enumerated actor name

NameChars == {" ", "[", "]", "R"}

RECURSIVE Spelled(_)
Spelled(chars) == IF Len(chars) = 0 THEN "" ELSE Head(chars) \o Spelled(Tail(chars))

ActorNames ==
    {Spelled(chars) : chars \in SeqsUpTo(NameChars, MaxNameLen)}
        \cup {"[Clan] Rogar", "Rogar", "  [Clan]Rogar", "[A][B] Rogar"}

\* a round whose only source row names the actor
NamedRound(name, dmg) ==
    [totalDamage |-> dmg, hits |-> 1, misses |-> 0, events |-> <<>>,
     bySource |-> <<[actor |-> name, totalAsSource |-> dmg, countAsSource |-> 1]>>]

InitActor ==
    /\ text \in ActorNames
    /\ result = [called |-> FALSE, out |-> "", actors |-> <<>>]
    /\ ComponentInit

\* normalizeActor(row.actor || "") and the two calls of addRoundToActors
NormalizeActorCall ==
    /\ ~result.called
    /\ result' = [called |-> TRUE,
                  out |-> normalizeActor(text),
                  actors |-> addRoundToActors(addRoundToActors(<<>>, NamedRound(text, 100)),
                                              NamedRound("Rogar", 50))]
    /\ UNCHANGED <<loads, text, entries, duration, time, playing, refs, term, hist>>

SpecActor == InitActor /\ [][NormalizeActorCall]_vars

-----------------------------------------------------------------------------
(* fmt1 on its own *)

MaxAmount == 1300    \* largest magnitude, in hundredths, handed to fmt1

Amounts ==
    {Num(c) : c \in (-MaxAmount)..MaxAmount}
        \cup {NonFinite("NaN"), NonFinite("Infinity"), NonFinite("-Infinity"), Nullish}

InitFmt ==
    /\ text \in Amounts
    /\ result = [called |-> FALSE, out |-> ""]
    /\ ComponentInit

Fmt1Call ==
    /\ ~result.called
    /\ result' = [called |-> TRUE, out |-> fmt1Of(text)]
    /\ UNCHANGED <<loads, text, entries, duration, time, playing, refs, term, hist>>

SpecFmt == InitFmt /\ [][Fmt1Call]_vars

-----------------------------------------------------------------------------
(* Properties of parseLog (specification SpecParse) *)

Returned == result.called /\ ~result.threw

IsNarrative(e) == e.type = "dsl-message"
IsDamage(e) == e.type = "damage"

\* C1: for every input text the returned timeline is sorted non-decreasing
\* by timestamp: entries[i].ts <= entries[j].ts for all i < j.
C1_TimelineSorted ==
    Returned =>
        \A i, j \in 1..Len(result.out) : i < j => LE(result.out[i].ts, result.out[j].ts)

\* sorted[j] is not a repetition of an earlier narrative entry
FirstOfItsPair(sorted, j) ==
    ~(/\ IsNarrative(sorted[j])
      /\ \E i \in 1..(j - 1) :
            /\ IsNarrative(sorted[i])
            /\ sorted[i].ts = sorted[j].ts
            /\ sorted[i].message = sorted[j].message)

RECURSIVE FirstsFrom(_, _)
FirstsFrom(sorted, j) ==
    IF j > Len(sorted) THEN <<>>
    ELSE (IF FirstOfItsPair(sorted, j) THEN <<sorted[j]>> ELSE <<>>) \o FirstsFrom(sorted, j + 1)

\* C2: the returned timeline holds no two narrative entries with the same
\* (timestamp, text) pair, and it is the sorted collection with every
\* narrative entry removed that repeats the pair of an earlier one, so that
\* of several identical narrative records the first in sorted order survives.
C2_NarrativeDeduped ==
    Returned =>
        /\ \A i, j \in 1..Len(result.out) :
                (i < j /\ IsNarrative(result.out[i]) /\ IsNarrative(result.out[j]))
                    => ~(/\ result.out[i].ts = result.out[j].ts
                         /\ result.out[i].message = result.out[j].message)
        /\ result.out = FirstsFrom(result.sorted, 1)

C2_Witness ==
    /\ Returned
    /\ Len(result.out) >= 2
    /\ Len(result.sorted) > Len(result.out)

DamageLines(lines) == {i \in 1..Len(lines) : lines[i].form = "object" /\ lines[i].type = "damage"}
DamageEntries(ents) == {i \in 1..Len(ents) : IsDamage(ents[i])}

\* C3: parseLog never removes a damage round: the returned timeline holds as
\* many damage entries as the text holds lines of type "damage", also when
\* several of them agree in timestamp and payload.
C3_DamageRoundsKept ==
    Returned => Cardinality(DamageEntries(result.out)) = Cardinality(DamageLines(text))

C3_Witness ==
    /\ Returned
    /\ \E i, j \in DamageEntries(result.out) : i < j /\ result.out[i] = result.out[j]

\* C4: parseLog never raises, whatever the text: a defective line only makes
\* the returned timeline shorter.
C4_NeverRaises == result.called => ~result.threw

IsIgnoredType(line) == line.form = "object" /\ line.type \notin {"dsl-message", "damage"}

RECURSIVE WithoutIgnored(_)
WithoutIgnored(lines) ==
    IF Len(lines) = 0 THEN <<>>
    ELSE (IF IsIgnoredType(Head(lines)) THEN <<>> ELSE <<Head(lines)>>) \o WithoutIgnored(Tail(lines))

\* C5: a line whose type is neither "dsl-message" nor "damage" contributes no
\* entry and changes nothing else: parseLog has the same outcomes on the text
\* and on the text without such lines, and every entry is of the two kinds.
C5_OtherTypesIgnored ==
    result.called =>
        /\ parseLog(text) = parseLog(WithoutIgnored(text))
        /\ result \in parseLog(WithoutIgnored(text))
        /\ \A i \in 1..Len(result.out) : IsNarrative(result.out[i]) \/ IsDamage(result.out[i])

C5_Witness ==
    /\ Returned
    /\ \E i \in 1..Len(text) : IsIgnoredType(text[i])
    /\ Len(result.out) >= 2

-----------------------------------------------------------------------------
(* Properties of playback (specification Spec) *)

Loaded == Len(entries) > 0

Cutoff == Add(entries[1].ts, time)

\* C6: once the playback step has run for the elapsed time, the cursor is the
\* index of the first entry whose timestamp is strictly greater than
\* entries[0].ts + time, or the timeline length if there is none; at time 0
\* every entry sharing the first timestamp is exposed.
C6_CursorIsBoundary ==
    Loaded =>
        /\ refs.lastIndexRef \in 0..Len(entries)
        /\ \A i \in 1..refs.lastIndexRef : ~GT(entries[i].ts, Cutoff)
        /\ refs.lastIndexRef < Len(entries) => GT(entries[refs.lastIndexRef + 1].ts, Cutoff)
        /\ time = 0 =>
              \A i \in 1..Len(entries) : entries[i].ts = entries[1].ts => i <= refs.lastIndexRef

C6_Witness ==
    /\ Loaded
    /\ time > 0
    /\ refs.lastIndexRef > 1
    /\ refs.lastIndexRef < Len(entries)
    /\ entries[refs.lastIndexRef].ts = Cutoff

\* C7: while elapsed time has never decreased on the loaded log, every entry
\* is emitted at most once and in timeline order.
C7_EmittedOnceInOrder ==
    hist.monotone =>
        \A i, j \in 1..Len(hist.emitted) : i < j => hist.emitted[i] < hist.emitted[j]

C7_Witness ==
    /\ hist.monotone
    /\ Len(entries) = 3
    /\ hist.emitted = <<1, 2, 3>>
    /\ hist.lastStep # None
    /\ hist.lastStep[1].from = 2

PlusTotals(a, b) ==
    [damage |-> a.damage + b.damage, hits |-> a.hits + b.hits, misses |-> a.misses + b.misses]

\* what the rounds among entries from+1 .. to add to the totals
RECURSIVE RoundsOf(_, _, _)
RoundsOf(ents, from, to) ==
    IF from >= to THEN ZeroTotals
    ELSE LET e == ents[from + 1]
         IN  PlusTotals(
                IF IsDamage(e) /\ e.payload.k = "obj"
                THEN addRoundToTotals(ZeroTotals, e.payload.o) ELSE ZeroTotals,
                RoundsOf(ents, from + 1, to))

RECURSIVE FlushedSince(_, _)
FlushedSince(flushes, n) ==
    IF n >= Len(flushes) THEN ZeroTotals
    ELSE PlusTotals(flushes[n + 1].totals, FlushedSince(flushes, n + 1))

RoundsCrossed(ents, from, to) ==
    Cardinality({i \in (from + 1)..to : IsDamage(ents[i]) /\ ents[i].payload.k = "obj"})

\* C8: a playback step that moves the boundary from index a to index b visits
\* the entries a+1 .. b in order, and every damage round among them is added:
\* the accumulator after the step plus the summaries flushed during the step
\* equal the accumulator before the step plus all these rounds.
C8_AllRoundsAccumulated ==
    (Loaded /\ hist.lastStep # None) =>
        LET ls == hist.lastStep[1]
            n == ls.to - ls.from
            m == Len(hist.emitted)
        IN  /\ n > 0 =>
                /\ m >= n
                /\ \A k \in 1..n : hist.emitted[m - n + k] = ls.from + k
            /\ PlusTotals(refs.totalsRef, FlushedSince(hist.flushes, ls.nflushes))
                = PlusTotals(ls.totals, RoundsOf(entries, ls.from, ls.to))

C8_Witness ==
    /\ Loaded
    /\ hist.lastStep # None
    /\ hist.lastStep[1].from > 0
    /\ RoundsCrossed(entries, hist.lastStep[1].from, hist.lastStep[1].to) >= 2

\* C9: the first processing of a newly loaded timeline starts from cursor 0,
\* elapsed time 0 and an empty fight accumulator.
C9_LoadResetsBeforeProcessing ==
    hist.firstStep # None =>
        /\ hist.firstStep[1].timeZero
        /\ hist.firstStep[1].lastIndex = 0
        /\ hist.firstStep[1].fresh

\* C10: when elapsed time has been rewound to zero on the loaded log, the
\* fight state is reset: per-actor map and totals empty, last round timestamp
\* and flush deadline unset.
C10_RewindToZeroResets ==
    (Loaded /\ time = 0 /\ hist.rewinds > 0) =>
        /\ refs.byActorRef = <<>>
        /\ refs.totalsRef = ZeroTotals
        /\ refs.lastDamageTsRef = None
        /\ refs.nextFlushDeadlineRef = None

-----------------------------------------------------------------------------
(* Properties of fight batching during playback (specification Spec) *)

EmptyAcc == [actors |-> <<>>, totals |-> ZeroTotals]

NonZeroAcc(a) ==
    Len(a.actors) > 0 \/ a.totals.damage > 0 \/ a.totals.hits > 0 \/ a.totals.misses > 0

\* the summaries written while round r was processed, above its header line
GapFlushesOf(r) ==
    {k \in (r.nflushes + 1)..Len(hist.flushes) : hist.flushes[k].at < r.at}

\* C11: when a damage round is processed while a previous round of the open
\* fight exists and the accumulator is nonzero, the summary of the previous
\* rounds is written above the new round's header line, and the new round is
\* accumulated onto an empty accumulator, if and only if the round's
\* timestamp minus the previous round's is at least FIVE_MIN_MS; otherwise
\* nothing is written and the round is added to the open fight.
C11_GapFlushBeforeRound ==
    \A i \in 1..Len(hist.rounds) :
        LET r == hist.rounds[i]
        IN  (r.prev # None /\ NonZeroAcc(r.start)) =>
                /\ term[r.at] = RoundHeader(r.p)
                /\ IF r.ts - r.prev[1] >= FIVE_MIN_MS
                   THEN /\ Cardinality(GapFlushesOf(r)) = 1
                        /\ \A k \in GapFlushesOf(r) :
                              /\ hist.flushes[k].totals = r.start.totals
                              /\ hist.flushes[k].actors = r.start.actors
                              /\ term[hist.flushes[k].at] = SummaryLines(r.start.actors, r.start.totals)[1]
                        /\ r.before = EmptyAcc
                   ELSE /\ GapFlushesOf(r) = {}
                        /\ r.before = r.start

C11_Witness ==
    \E i \in 1..Len(hist.rounds) :
        /\ hist.rounds[i].prev # None
        /\ NonZeroAcc(hist.rounds[i].start)
        /\ hist.rounds[i].ts - hist.rounds[i].prev[1] = FIVE_MIN_MS
        /\ GapFlushesOf(hist.rounds[i]) # {}

\* the time-based flush is due for the refs r at the cutoff c
TimerDue(r, c) ==
    /\ r.nextFlushDeadlineRef # None
    /\ c >= r.nextFlushDeadlineRef[1]
    /\ ~r.fightFlushedByTimerRef
    /\ NonZero(r)

\* C12: if, once a playback step has emitted its entries, a flush deadline is
\* set, the cutoff is at or past it, the fight is not marked flushed and the
\* accumulator is nonzero, then the step writes the summary of that
\* accumulator and leaves it empty, also when the step exposed no new entry;
\* so no step ends with the time-based flush still due.
C12_TimerFlushInStep ==
    (Loaded /\ hist.lastStep # None) =>
        LET ls == hist.lastStep[1]
        IN  /\ TimerDue(ls.mid, ls.cutoff) =>
                /\ Len(hist.flushes) = ls.midFlushes + 1
                /\ hist.flushes[Len(hist.flushes)].totals = ls.mid.totalsRef
                /\ hist.flushes[Len(hist.flushes)].actors = ls.mid.byActorRef
                /\ ~NonZero(refs)
            /\ ls.cutoff = Cutoff
            /\ ~TimerDue(refs, Cutoff)

C12_Witness ==
    /\ Loaded
    /\ hist.lastStep # None
    /\ hist.lastStep[1].from = hist.lastStep[1].to
    /\ hist.lastStep[1].to < Len(entries)
    /\ TimerDue(hist.lastStep[1].mid, hist.lastStep[1].cutoff)
    /\ hist.lastStep[1].cutoff = hist.lastStep[1].mid.nextFlushDeadlineRef[1]
    /\ Len(hist.flushes) = hist.lastStep[1].midFlushes + 1

\* C13: in a playback step that brings the boundary to the timeline length
\* (the final flush not yet done) and leaves the emit loop with a nonzero
\* accumulator, exactly one summary is written after the loop, it carries
\* that accumulator, and the accumulator is empty afterwards, whether or not
\* the flush deadline has been reached; a step that finds the boundary
\* already at the end writes none.
C13_OneSummaryAtEnd ==
    (Loaded /\ hist.lastStep # None) =>
        LET ls == hist.lastStep[1]
        IN  /\ (ls.to = Len(entries) /\ ~ls.finalDone /\ NonZero(ls.mid)) =>
                /\ Len(hist.flushes) = ls.midFlushes + 1
                /\ Acc(ls.mid) = [actors |-> hist.flushes[Len(hist.flushes)].actors,
                                  totals |-> hist.flushes[Len(hist.flushes)].totals]
                /\ Acc(refs) = EmptyAcc
                /\ refs.flushedFinalRef
            /\ (ls.to = Len(entries) /\ ls.finalDone) =>
                /\ ~NonZero(ls.mid)
                /\ Len(hist.flushes) = ls.nflushes

C13_Witness ==
    /\ Loaded
    /\ hist.lastStep # None
    /\ hist.lastStep[1].to = Len(entries)
    /\ ~hist.lastStep[1].finalDone
    /\ NonZero(hist.lastStep[1].mid)
    /\ TimerDue(hist.lastStep[1].mid, hist.lastStep[1].cutoff)
    /\ Len(hist.flushes) = hist.lastStep[1].midFlushes + 1

\* C14: a playback step whose boundary is below the timeline length leaves
\* flushedFinalRef false and one whose boundary is the timeline length leaves
\* it true, so that a step that reaches the timeline length again with a
\* nonzero accumulator writes its summary again.
C14_FinalFlagFollowsBoundary ==
    (Loaded /\ hist.lastStep # None) =>
        LET ls == hist.lastStep[1]
        IN  /\ refs.flushedFinalRef <=> (ls.to = Len(entries))
            /\ (ls.to = Len(entries) /\ NonZero(ls.mid)) =>
                /\ ~ls.finalDone
                /\ Len(hist.flushes) > ls.midFlushes
                /\ ~NonZero(refs)

C14_Witness ==
    /\ Loaded
    /\ hist.rewinds > 0
    /\ Len(entries) = 2
    /\ hist.emitted = <<1, 2, 2>>
    /\ Len(hist.flushes) = 2
    /\ hist.lastStep # None
    /\ hist.lastStep[1].to = Len(entries)
    /\ hist.lastStep[1].midFlushes = 1

-----------------------------------------------------------------------------
(* Properties of the fight helpers (specifications Spec and SpecFight) *)

RECURSIVE SumOf(_)
SumOf(ns) == IF Len(ns) = 0 THEN 0 ELSE Head(ns) + SumOf(Tail(ns))

SumDamage(map) == SumOf([i \in 1..Len(map) |-> map[i].damage])
SumHits(map) == SumOf([i \in 1..Len(map) |-> map[i].hits])
SumMisses(map) == SumOf([i \in 1..Len(map) |-> map[i].misses])

\* C15: the per-actor damage values of the accumulator add up to its total
\* damage, whatever rounds were accumulated, so the actor lines of every
\* flushed summary add up to the total of its header.
C15_ActorsAddUpToTotal ==
    /\ SumDamage(refs.byActorRef) = refs.totalsRef.damage
    /\ \A k \in 1..Len(hist.flushes) :
            SumDamage(hist.flushes[k].actors) = hist.flushes[k].totals.damage

\* the value an actor holds in a map, zeros if the map has no such actor
RowOf(map, name) ==
    IF MapHas(map, name)
    THEN map[CHOOSE i \in 1..Len(map) : map[i].actor = name]
    ELSE [actor |-> name, damage |-> 0, hits |-> 0, misses |-> 0]

ActorsOf(map) == {map[i].actor : i \in 1..Len(map)}

\* damage and hits the round p carries for the actor name: its bySource rows
\* when there are any, and otherwise its events with amount > 0
SourceDamage(p, name) ==
    IF Len(p.bySource) > 0
    THEN SumOf([i \in 1..Len(p.bySource) |->
                  IF normalizeActor(p.bySource[i].actor) = name
                  THEN p.bySource[i].totalAsSource ELSE 0])
    ELSE SumOf([i \in 1..Len(p.events) |->
                  IF normalizeActor(p.events[i].source) = name /\ p.events[i].amount > 0
                  THEN p.events[i].amount ELSE 0])

SourceHits(p, name) ==
    IF Len(p.bySource) > 0
    THEN SumOf([i \in 1..Len(p.bySource) |->
                  IF normalizeActor(p.bySource[i].actor) = name
                  THEN p.bySource[i].countAsSource ELSE 0])
    ELSE SumOf([i \in 1..Len(p.events) |->
                  IF normalizeActor(p.events[i].source) = name /\ p.events[i].amount > 0
                  THEN 1 ELSE 0])

\* the same for the whole round
RoundDamage(p) ==
    IF Len(p.bySource) > 0
    THEN SumOf([i \in 1..Len(p.bySource) |-> p.bySource[i].totalAsSource])
    ELSE SumOf([i \in 1..Len(p.events) |->
                  IF p.events[i].amount > 0 THEN p.events[i].amount ELSE 0])

RoundHits(p) ==
    IF Len(p.bySource) > 0
    THEN SumOf([i \in 1..Len(p.bySource) |-> p.bySource[i].countAsSource])
    ELSE SumOf([i \in 1..Len(p.events) |-> IF p.events[i].amount > 0 THEN 1 ELSE 0])

SourceActors(p) ==
    {normalizeActor(p.bySource[i].actor) : i \in 1..Len(p.bySource)}
        \cup {normalizeActor(p.events[i].source) : i \in 1..Len(p.events)}

\* C16: the damage and the hits a round adds to every actor and to the totals
\* are those of its bySource rows when it has any (its events then add no
\* damage and no hit), and otherwise the sum and the count of its events with
\* amount > 0.
C16_DamageAndHitsBySourceElseEvents ==
    \A k \in 1..Len(hist.rounds) :
        LET r == hist.rounds[k]
            names == ActorsOf(r.after.actors) \cup SourceActors(r.p)
        IN  /\ \A name \in names :
                  /\ RowOf(r.after.actors, name).damage
                        = RowOf(r.before.actors, name).damage + SourceDamage(r.p, name)
                  /\ RowOf(r.after.actors, name).hits
                        = RowOf(r.before.actors, name).hits + SourceHits(r.p, name)
            /\ r.after.totals.damage = r.before.totals.damage + RoundDamage(r.p)
            /\ r.after.totals.hits = r.before.totals.hits + RoundHits(r.p)

\* the misses the round p counts: its events with amount 0 when it has
\* events, its misses field when it has none
RoundMisses(p) ==
    IF Len(p.events) > 0
    THEN SumOf([i \in 1..Len(p.events) |-> IF p.events[i].amount = 0 THEN 1 ELSE 0])
    ELSE p.misses

\* C17: the misses a round adds are the number of its events with amount 0
\* when it has events and its misses field when it has none, and they are
\* added to the totals and to the actors of the accumulator alike.
C17_MissesToActorsAndTotals ==
    \A k \in 1..Len(hist.rounds) :
        LET r == hist.rounds[k]
        IN  /\ r.after.totals.misses = r.before.totals.misses + RoundMisses(r.p)
            /\ SumMisses(r.after.actors) = SumMisses(r.before.actors) + RoundMisses(r.p)

\* the latest helper call was a flush, of an accumulator that was not empty
FlushedSomething ==
    /\ hist.call # None
    /\ Acc(hist.call[1].before) # EmptyAcc

\* the latest helper call was a flush of an entirely empty accumulator
FlushedNothing ==
    /\ hist.call # None
    /\ Acc(hist.call[1].before) = EmptyAcc

\* the lines the latest flush wrote
Written == SubSeq(term, Len(hist.call[1].term) + 1, Len(term))

\* C18: a flush that writes a summary leaves the per-actor map empty, the
\* totals zero, lastDamageTsRef and nextFlushDeadlineRef unset and
\* fightFlushedByTimerRef true (the cursor and flushedFinalRef as they were),
\* and what it wrote is a header with the totals and one line per actor with
\* that actor's figures as they stood before the clear, then a blank line.
C18_FlushClearsAndReports ==
    FlushedSomething =>
        LET b == hist.call[1].before
            n == Len(b.byActorRef)
        IN  /\ refs = [b EXCEPT !.byActorRef = <<>>,
                                !.totalsRef = ZeroTotals,
                                !.lastDamageTsRef = None,
                                !.nextFlushDeadlineRef = None,
                                !.fightFlushedByTimerRef = TRUE]
            /\ SubSeq(term, 1, Len(hist.call[1].term)) = hist.call[1].term
            /\ Len(Written) = n + 2
            /\ Written[1] = "-- Fight summary -- totalDamage=" \o fmt1(b.totalsRef.damage)
                                \o ", hits=" \o ToString(b.totalsRef.hits)
                                \o ", misses=" \o ToString(b.totalsRef.misses)
            /\ \A i \in 1..n : \E k \in 2..(n + 1) :
                    Written[k] = "  " \o b.byActorRef[i].actor \o ": "
                                    \o fmt1(b.byActorRef[i].damage) \o " dmg, "
                                    \o ToString(b.byActorRef[i].hits) \o " hits, "
                                    \o ToString(b.byActorRef[i].misses) \o " misses"
            /\ Written[n + 2] = ""
            /\ hist.flushes[Len(hist.flushes)] =
                    [totals |-> b.totalsRef, actors |-> b.byActorRef, at |-> Len(hist.call[1].term) + 1]

C18_Witness ==
    /\ FlushedSomething
    /\ Len(hist.call[1].before.byActorRef) >= 2
    /\ hist.call[1].before.totalsRef.misses > 0
    /\ hist.call[1].before.lastDamageTsRef # None
    /\ hist.call[1].before.nextFlushDeadlineRef # None
    /\ ~hist.call[1].before.fightFlushedByTimerRef

\* C19: a flush of an entirely empty accumulator writes no line and changes
\* no ref: lastDamageTsRef, nextFlushDeadlineRef, fightFlushedByTimerRef and
\* flushedFinalRef keep their values.
C19_EmptyFlushIsNoOp ==
    FlushedNothing =>
        /\ term = hist.call[1].term
        /\ refs = hist.call[1].before

C19_Witness ==
    /\ FlushedNothing
    /\ refs.lastDamageTsRef # None
    /\ refs.nextFlushDeadlineRef # None
    /\ ~refs.fightFlushedByTimerRef

\* the accumulator row that the k-th actor line of the latest flush shows
ShownRow(k) ==
    CHOOSE i \in 1..Len(hist.call[1].before.byActorRef) :
        Written[k + 1] = "  " \o ActorLine(hist.call[1].before.byActorRef[i])

\* C20: the actor lines of a flushed summary are in descending order of
\* accumulated damage, and actors with equal damage are in the order in which
\* they entered the accumulator.
C20_ActorLinesByDamageThenInsertion ==
    FlushedSomething =>
        LET map == hist.call[1].before.byActorRef
            n == Len(map)
        IN  /\ \A k \in 1..n : \E i \in 1..n : Written[k + 1] = "  " \o ActorLine(map[i])
            /\ \A k, l \in 1..n :
                  k < l =>
                    \/ map[ShownRow(k)].damage > map[ShownRow(l)].damage
                    \/ /\ map[ShownRow(k)].damage = map[ShownRow(l)].damage
                       /\ ShownRow(k) < ShownRow(l)

C20_Witness ==
    /\ FlushedSomething
    /\ \E i, j \in 1..Len(hist.call[1].before.byActorRef) :
            /\ i < j
            /\ hist.call[1].before.byActorRef[i].damage = hist.call[1].before.byActorRef[j].damage
            /\ hist.call[1].before.byActorRef[i].hits < hist.call[1].before.byActorRef[j].hits
    /\ \E i, j \in 1..Len(hist.call[1].before.byActorRef) :
            /\ i < j
            /\ hist.call[1].before.byActorRef[i].damage < hist.call[1].before.byActorRef[j].damage

-----------------------------------------------------------------------------
(* Properties of the playback step as a function (specification Spec) *)

\* the playback effect run once more on the current state
Rerun == PlaybackEffect([refs |-> refs, term |-> term, hist |-> hist], entries, time)

\* C21: the playback step is idempotent: run a second time with the same
\* elapsed time and the same timeline it writes no line and leaves the
\* cursor, the accumulator, the timers and the flags as they are.
C21_StepIdempotent ==
    Loaded =>
        /\ Rerun.term = term
        /\ Rerun.refs = refs
        /\ Rerun.hist.emitted = hist.emitted
        /\ Rerun.hist.flushes = hist.flushes

C21_Witness ==
    /\ Loaded
    /\ hist.lastStep # None
    /\ hist.lastStep[1].to > hist.lastStep[1].from
    /\ hist.lastStep[1].to < Len(entries)
    /\ Len(hist.flushes) > hist.lastStep[1].nflushes
    /\ NonZero(refs)
    /\ Rerun.term = term

\* C24: a playback step over an empty timeline writes no line and changes no
\* ref, whatever the elapsed time.
C24_EmptyTimelineNoOp ==
    [][Len(entries') = 0 => (refs' = refs /\ term' = term)]_vars

C24_Witness ==
    /\ Len(entries) = 0
    /\ time > 0
    /\ refs.lastIndexRef > 0
    /\ refs.nextFlushDeadlineRef # None
    /\ NonZero(refs)

\* a freshly loaded log before its first playback step
FreshLoad == [refs |-> FreshRefs, term |-> <<>>, hist |-> FreshHist]

\* the terminal when the current elapsed time is reached from a fresh load by
\* the step of the load and one more step
OneStepTerm == PlaybackEffect(PlaybackEffect(FreshLoad, entries, 0), entries, time).term

\* C22: while elapsed time has only grown since the load, the lines on the
\* terminal (narrative lines, round blocks and summaries, in their order) are
\* those that a single playback step to the current elapsed time writes.
C22_LinesIndependentOfStepping ==
    (Loaded /\ hist.monotone) => term = OneStepTerm

-----------------------------------------------------------------------------
(* Properties of the round timers (specification SpecFight) *)

\* the latest helper call processed a round
RoundJustProcessed == hist.call = None /\ Len(hist.rounds) > 0

\* C23: once a damage round of timestamp ts has been processed,
\* lastDamageTsRef is ts, nextFlushDeadlineRef is ts + FIVE_MIN_MS and
\* fightFlushedByTimerRef is false.
C23_TimersAfterRound ==
    RoundJustProcessed =>
        /\ refs.lastDamageTsRef = Some(hist.rounds[Len(hist.rounds)].ts)
        /\ refs.nextFlushDeadlineRef = Some(hist.rounds[Len(hist.rounds)].ts + FIVE_MIN_MS)
        /\ ~refs.fightFlushedByTimerRef

C23_Witness ==
    /\ RoundJustProcessed
    /\ Len(hist.rounds) >= 2
    /\ Len(hist.flushes) >= 1
    /\ hist.flushes[Len(hist.flushes)].at > hist.rounds[Len(hist.rounds) - 1].at
    /\ refs.lastDamageTsRef = Some(T0 + 1000 * (Len(hist.rounds) - 1))


-----------------------------------------------------------------------------
(* ansiToBBCode *)

Escapes == 1..Len(result.log)
HasCode(codes, c) == \E i \in 1..Len(codes) : codes[i] = c

\* C25: an escape that is directly followed by "]" changes nothing: no tag
\* is written for it and the open colour stays what it was, whatever its
\* parameters and whether or not a colour is open.
C25_BracketSuppressesChange ==
    result.called =>
        \A i \in Escapes :
            result.log[i].next = "]" =>
                /\ result.log[i].tags = <<>>
                /\ result.log[i].after = result.log[i].before

\* the name the documentation gives to the indexed colour n
IndexedColour(n) == IF n = 61 THEN "PURPLE" ELSE "XTERM-" \o ToString(n)

\* C26: an escape with the parameters 38;5;n opens PURPLE for n = 61 and
\* XTERM-n for every other n.
C26_IndexedColourName ==
    result.called =>
        \A i \in Escapes :
            (/\ Len(result.log[i].codes) = 3
             /\ result.log[i].codes[1] = 38
             /\ result.log[i].codes[2] = 5
             /\ result.log[i].next # "]") =>
                /\ result.log[i].after = Some(IndexedColour(result.log[i].codes[3]))
                /\ result.log[i].tags[Len(result.log[i].tags)]
                       = OpenTag(IndexedColour(result.log[i].codes[3]))

\* the colour of the first code of the range lo..hi among codes
ColourOfFirst(codes, lo, hi) ==
    ansiColorNames[codes[CHOOSE i \in 1..Len(codes) :
                             /\ codes[i] \in lo..hi
                             /\ \A j \in 1..(i - 1) : codes[j] \notin lo..hi]]

HasBright(codes) == \E i \in 1..Len(codes) : codes[i] \in 90..97
HasBasic(codes) == \E i \in 1..Len(codes) : codes[i] \in 30..37

\* C27: for every escape, a reset code among the parameters closes the open
\* colour before anything else is written for the escape, and the colour it
\* then opens is that of its first bright code if it has one, else that of
\* its first basic code, wherever the codes stand in the list.
C27_ResetThenBrightOverBasic ==
    result.called =>
        \A i \in Escapes :
            /\ (HasCode(result.log[i].codes, 0) /\ result.log[i].before # None) =>
                    /\ Len(result.log[i].tags) >= 1
                    /\ result.log[i].tags[1] = CloseTag
                    /\ \A k \in 2..Len(result.log[i].tags) : result.log[i].tags[k].k = "open"
            /\ (HasBright(result.log[i].codes) /\ result.log[i].next # "]") =>
                    /\ result.log[i].after = Some(ColourOfFirst(result.log[i].codes, 90, 97))
                    /\ result.log[i].tags[Len(result.log[i].tags)]
                           = OpenTag(ColourOfFirst(result.log[i].codes, 90, 97))
            /\ (/\ ~HasBright(result.log[i].codes)
                /\ HasBasic(result.log[i].codes)
                /\ result.log[i].next # "]") =>
                    /\ result.log[i].after = Some(ColourOfFirst(result.log[i].codes, 30, 37))
                    /\ result.log[i].tags[Len(result.log[i].tags)]
                           = OpenTag(ColourOfFirst(result.log[i].codes, 30, 37))

\* a message in which one escape resets an open colour and selects a new
\* one, and another escape lists a basic code before a bright one
C27_Witness ==
    /\ result.called
    /\ \E i \in Escapes :
            /\ HasCode(result.log[i].codes, 0)
            /\ result.log[i].before = Some("RED")
            /\ result.log[i].tags = <<CloseTag, OpenTag("GREEN")>>
    /\ \E i \in Escapes :
            /\ result.log[i].codes = <<31, 91>>
            /\ result.log[i].after = Some("ORANGE")

\* C28: the message ESC[31mA ESC[32mB ESC[0mC becomes an opening tag, "A ",
\* a closing and an opening tag, "B ", a closing tag and "C"; and every
\* escape that selects a colour and is not followed by "]" writes a closing
\* tag for the open colour, if there is one and even if it has the same
\* name, and then the opening tag.
C28_CloseBeforeReopen ==
    result.called =>
        /\ text = NestedSample =>
                /\ result.pieces = << OpenTag("RED"), Copied("A "),
                                      CloseTag, OpenTag("GREEN"), Copied("B "),
                                      CloseTag, Copied("C") >>
                /\ result.out = "[COLOR=RED]A [/COLOR][COLOR=GREEN]B [/COLOR]C"
        /\ \A i \in Escapes :
                (pick(result.log[i].codes) # None /\ result.log[i].next # "]") =>
                    /\ result.log[i].after = pick(result.log[i].codes)
                    /\ result.log[i].tags =
                          (IF result.log[i].before # None THEN <<CloseTag>> ELSE <<>>)
                              \o <<OpenTag(pick(result.log[i].codes)[1])>>

\* the sample message has been translated
C28_Witness ==
    /\ result.called
    /\ text = NestedSample
    /\ Len(result.log) = 3
    /\ result.log[2].before = Some("RED")
    /\ result.log[2].after = Some("GREEN")
    /\ result.log[2].tags = <<CloseTag, OpenTag("GREEN")>>
    /\ result.log[3].after = None

\* the output without the tags
RECURSIVE WithoutTags(_)
WithoutTags(out) ==
    IF Len(out) = 0 THEN ""
    ELSE (IF Head(out).k = "text" THEN Head(out).s ELSE "") \o WithoutTags(Tail(out))

\* the message without its escapes
RECURSIVE WithoutEscapes(_)
WithoutEscapes(chunks) ==
    IF Len(chunks) = 0 THEN ""
    ELSE (IF Head(chunks).esc THEN "" ELSE Head(chunks).s) \o WithoutEscapes(Tail(chunks))

\* C29: the output without the tags is the message without its escapes.
C29_TextCopiedEscapesDropped ==
    result.called => WithoutTags(result.pieces) = WithoutEscapes(text)


-----------------------------------------------------------------------------
(* normalizeActor *)

\* positions i and j of name hold the "[" and the "]" of a leading tag
LeadingTag(name, i, j) ==
    /\ \A x \in 1..(i - 1) : CharAt(name, x) = " "
    /\ CharAt(name, i) = "["
    /\ \A x \in (i + 1)..(j - 1) : CharAt(name, x) # "]"
    /\ CharAt(name, j) = "]"

\* the whitespace after position j of name ends at position k
SpaceUpTo(name, j, k) ==
    /\ \A x \in (j + 1)..k : CharAt(name, x) = " "
    /\ CharAt(name, k + 1) # " "

\* C30: a name that starts with optional whitespace, "[", characters other
\* than "]", "]" and optional whitespace loses exactly that prefix, every
\* other name is returned as it is, and rounds that name "[Clan] Rogar" and
\* "Rogar" add up in the single actor "Rogar".
C30_OneLeadingTagRemoved ==
    result.called =>
        /\ IF \E i \in 1..Len(text), j \in 1..Len(text) : LeadingTag(text, i, j)
           THEN \E i \in 1..Len(text), j \in 1..Len(text), k \in 1..Len(text) :
                    /\ LeadingTag(text, i, j)
                    /\ k >= j
                    /\ SpaceUpTo(text, j, k)
                    /\ result.out = SubSeq(text, k + 1, Len(text))
           ELSE result.out = text
        /\ ActorsOf(result.actors) = {result.out, "Rogar"}
        /\ text = "[Clan] Rogar" =>
                result.actors = <<[actor |-> "Rogar", damage |-> 150, hits |-> 2, misses |-> 0]>>

\* "[Clan] Rogar" has been normalized and added with a round of "Rogar"
C30_Witness ==
    /\ result.called
    /\ text = "[Clan] Rogar"
    /\ result.out = "Rogar"
    /\ Len(result.actors) = 1


-----------------------------------------------------------------------------
(* fmt1 *)

\* the digits of s from position i on, read as a number continuing acc
RECURSIVE ReadDigits(_, _, _)
ReadDigits(s, i, acc) ==
    IF IsDigit(CharAt(s, i)) THEN ReadDigits(s, i + 1, acc * 10 + DigitValue(CharAt(s, i)))
    ELSE [v |-> acc, at |-> i]

\* s read as an optional "-", digits and an optional "." with one digit:
\* whether it has that form, whether it has a decimal, and its value in tenths
ReadShown(s, start, int) ==
    IF CharAt(s, int.at) = "."
    THEN [ok |-> int.at > start /\ IsDigit(CharAt(s, int.at + 1)) /\ Len(s) = int.at + 1,
          decimal |-> TRUE,
          tenths |-> int.v * 10 + (IF IsDigit(CharAt(s, int.at + 1))
                                   THEN DigitValue(CharAt(s, int.at + 1)) ELSE 0)]
    ELSE [ok |-> int.at > start /\ Len(s) = int.at - 1, decimal |-> FALSE, tenths |-> int.v * 10]

Shown(s) ==
    IF CharAt(s, 1) = "-" THEN ReadShown(s, 2, ReadDigits(s, 2, 0))
    ELSE ReadShown(s, 1, ReadDigits(s, 1, 0))

ShownTenths(s) == IF CharAt(s, 1) = "-" THEN -Shown(s).tenths ELSE Shown(s).tenths

\* C31: fmt1 shows a number by the nearest value with one decimal, without
\* the decimal when it is 0 (12.0 as "12", 12.34 as "12.3"), and shows a
\* value that is not finite as "0".
C31_OneDecimalNoTrailingZero ==
    result.called =>
        /\ text.k = "num" =>
                /\ Shown(result.out).ok
                /\ 10 * ShownTenths(result.out) - text.c \in (-5)..5
                /\ Shown(result.out).decimal => ShownTenths(result.out) % 10 # 0
        /\ text = Num(1200) => result.out = "12"
        /\ text = Num(1234) => result.out = "12.3"
        /\ text \in {NonFinite("NaN"), NonFinite("Infinity"), NonFinite("-Infinity")} => result.out = "0"

\* 12.34 has been formatted
C31_Witness == result.called /\ text = Num(1234) /\ result.out = "12.3"


-----------------------------------------------------------------------------
(* Fights *)

IsRound(entry) == entry.type = "damage" /\ entry.payload.k = "obj"

\* the fights of a timeline: the payloads of its damage rounds, split where a
\* round comes 5 minutes or more after the damage round before it
RECURSIVE FightsFrom(_, _, _, _)
FightsFrom(ents, i, fights, last) ==
    IF i > Len(ents) THEN fights
    ELSE IF ~IsRound(ents[i]) THEN FightsFrom(ents, i + 1, fights, last)
    ELSE IF last # None /\ ents[i].ts - last[1] < FIVE_MIN_MS
    THEN FightsFrom(ents, i + 1,
                    [fights EXCEPT ![Len(fights)] = Append(@, ents[i].payload.o)],
                    Some(ents[i].ts))
    ELSE FightsFrom(ents, i + 1, Append(fights, <<ents[i].payload.o>>), Some(ents[i].ts))

Fights(ents) == FightsFrom(ents, 1, <<>>, None)

\* what the rounds of a fight add up to, from an empty accumulator
RECURSIVE FightAcc(_, _, _)
FightAcc(ps, i, acc) ==
    IF i > Len(ps) THEN acc
    ELSE FightAcc(ps, i + 1, [actors |-> addRoundToActors(acc.actors, ps[i]),
                              totals |-> addRoundToTotals(acc.totals, ps[i])])

FightSum(ps) == FightAcc(ps, 1, EmptyAcc)

HasFigures(ps) == NonZeroAcc(FightSum(ps))

\* the fights that have anything to summarize
SummarizedFights(ents) == SelectSeq(Fights(ents), HasFigures)

\* C32: with elapsed time never decreasing since the load, the k-th summary
\* written holds exactly the rounds of the k-th fight of the timeline: no
\* summary holds part of a fight, or rounds of two fights.
C32_SummaryPerFight ==
    (Loaded /\ hist.monotone) =>
        /\ Len(hist.flushes) <= Len(SummarizedFights(entries))
        /\ \A k \in 1..Len(hist.flushes) :
                /\ hist.flushes[k].totals = FightSum(SummarizedFights(entries)[k]).totals
                /\ hist.flushes[k].actors = FightSum(SummarizedFights(entries)[k]).actors

\* a fight of three rounds has been played in more than one step and
\* summarized once
C32_Witness ==
    /\ Loaded /\ hist.monotone
    /\ Len(Fights(entries)) = 1
    /\ Len(Fights(entries)[1]) = 3
    /\ hist.lastStep # None
    /\ hist.lastStep[1].from >= 1
    /\ Len(hist.rounds) = 3
    /\ Len(hist.flushes) = 1


-----------------------------------------------------------------------------
(* Balance of the colour tags *)

IsTag(piece) == piece.k # "text"

\* the tags of the output, in order
TagsOf(out) == SelectSeq(out, IsTag)

\* C33: the tags written to the output alternate between opening and closing,
\* starting with an opening tag and ending with a closing tag, so that at
\* most one colour is open at any point and none at the end.
C33_TagsBalanced ==
    result.called =>
        /\ Len(TagsOf(result.pieces)) % 2 = 0
        /\ \A i \in 1..Len(TagsOf(result.pieces)) :
                TagsOf(result.pieces)[i].k = (IF i % 2 = 1 THEN "open" ELSE "close")

\* a message in which a colour was replaced by another and the last colour
\* was closed at the end of the line
C33_Witness ==
    /\ result.called
    /\ Len(TagsOf(result.pieces)) = 4
    /\ result.pieces[Len(result.pieces)] = CloseTag
    /\ \E i \in Escapes : result.log[i].before # None /\ result.log[i].after # None


-----------------------------------------------------------------------------
(* Conservation of the totals *)

\* what the round of entry adds to the totals (nothing if it is no round)
RoundTotals(entry) ==
    IF IsRound(entry) THEN addRoundToTotals(ZeroTotals, entry.payload.o) ELSE ZeroTotals

PlayedToEnd == Loaded /\ hist.monotone /\ hist.lastStep # None /\ refs.lastIndexRef = Len(entries)

\* C34: once a playback with elapsed time never decreasing since the load
\* has its boundary at the end of the timeline, the damage, hits and misses
\* of the summaries written add up to those of the rounds of the timeline,
\* and the accumulator is empty.
C34_SummariesAddUpToRounds ==
    PlayedToEnd =>
        /\ SumOf([k \in 1..Len(hist.flushes) |-> hist.flushes[k].totals.damage])
              = SumOf([i \in 1..Len(entries) |-> RoundTotals(entries[i]).damage])
        /\ SumOf([k \in 1..Len(hist.flushes) |-> hist.flushes[k].totals.hits])
              = SumOf([i \in 1..Len(entries) |-> RoundTotals(entries[i]).hits])
        /\ SumOf([k \in 1..Len(hist.flushes) |-> hist.flushes[k].totals.misses])
              = SumOf([i \in 1..Len(entries) |-> RoundTotals(entries[i]).misses])
        /\ Acc(refs) = EmptyAcc

\* a timeline of two fights played to its end in more than one step
C34_Witness ==
    /\ PlayedToEnd
    /\ hist.lastStep[1].from >= 1
    /\ Len(hist.rounds) >= 2
    /\ Len(hist.flushes) = 2
    /\ hist.flushes[1].totals.damage > 0
    /\ hist.flushes[2].totals.damage > 0


-----------------------------------------------------------------------------
(* Rewinding *)

\* a summary was written between the processing of rounds i and j
FlushedBetween(i, j) ==
    \E k \in 1..Len(hist.flushes) :
        /\ hist.flushes[k].at > hist.rounds[i].at
        /\ hist.flushes[k].at < hist.rounds[j].at

\* C35: whatever the steps since the load, rewinds included, a round that is
\* processed a second time goes to another fight than the first time: a
\* summary was written in between.
C35_NoRoundTwiceInFight ==
    Loaded =>
        \A i, j \in 1..Len(hist.rounds) :
            (i < j /\ hist.rounds[i].ts = hist.rounds[j].ts) => FlushedBetween(i, j)


-----------------------------------------------------------------------------
(* The timers of the open fight *)

\* C36: the flush deadline is set exactly when the timestamp of the last
\* round is set, and is then 5 minutes after it.
C36_DeadlineFollowsLastRound ==
    /\ refs.nextFlushDeadlineRef # None <=> refs.lastDamageTsRef # None
    /\ refs.lastDamageTsRef # None =>
            refs.nextFlushDeadlineRef = Some(refs.lastDamageTsRef[1] + FIVE_MIN_MS)

\* a round was processed after a summary had cleared both timers
C36_Witness ==
    /\ Loaded
    /\ Len(hist.flushes) >= 1
    /\ Len(hist.rounds) >= 2
    /\ hist.rounds[Len(hist.rounds)].at > hist.flushes[Len(hist.flushes)].at
    /\ refs.lastDamageTsRef = Some(hist.rounds[Len(hist.rounds)].ts)
    /\ refs.nextFlushDeadlineRef # None

\* C37: while the flushed-by-timer flag is true there are no actors, the
\* totals are zero and neither the timestamp of the last round nor the
\* deadline is set, so that no flush is due that the flag could hold back.
C37_FlagMeansNothingOpen ==
    refs.fightFlushedByTimerRef =>
        /\ Acc(refs) = EmptyAcc
        /\ refs.lastDamageTsRef = None
        /\ refs.nextFlushDeadlineRef = None

\* the flag is up after a summary, with the log not yet at its end
C37_Witness ==
    /\ Loaded
    /\ refs.fightFlushedByTimerRef
    /\ Len(hist.flushes) >= 1
    /\ Len(hist.rounds) >= 1
    /\ refs.lastIndexRef < Len(entries)


-----------------------------------------------------------------------------
(* Playing to the end *)

\* the whole timeline is out and summarized
Finished ==
    /\ refs.lastIndexRef = Len(entries)
    /\ \A i \in 1..Len(entries) : \E k \in 1..Len(hist.emitted) : hist.emitted[k] = i
    /\ refs.flushedFinalRef
    /\ Acc(refs) = EmptyAcc

-----------------------------------------------------------------------------
(* The By-source block and the accumulator *)

\* the lines buildRoundPerSourceLines shows for the round
ShownLines(p) == {buildRoundPerSourceLines(p)[k] : k \in 1..Len(buildRoundPerSourceLines(p))}

\* the lines that show the rows of a per-actor map
LinesOf(map) == {ActorLine(map[k]) : k \in 1..Len(map)}

\* C39: for every round processed, the actors and figures of its By-source
\* block are those that addRoundToActors adds for it, so the accumulator of
\* a fight that consists of that round alone shows the same rows.
C39_BlockMatchesAccumulator ==
    \A i \in 1..Len(hist.rounds) :
        /\ ShownLines(hist.rounds[i].p) = LinesOf(addRoundToActors(<<>>, hist.rounds[i].p))
        /\ hist.rounds[i].before = EmptyAcc =>
                ShownLines(hist.rounds[i].p) = LinesOf(hist.rounds[i].after.actors)

====
